---------------------------- MODULE Spec2Model ----------------------------
(***************************************************************************)
(* Shipment dashboard backend: the status classifier and row normalizer of *)
(* backend/data_preprocessing.py, the Polars normalizer, filter engine and *)
(* orchestrator of backend/analytics.py, and the compute route of          *)
(* backend/main.py.                                                        *)
(*                                                                         *)
(* A Python str is a tuple of one-character strings, so that upper(),      *)
(* strip(), re.sub() and the `in` substring test are computed and not      *)
(* assumed.  None and float('nan') are the one-element tuples NULL and NaN *)
(* whose element is no character.                                          *)
(***************************************************************************)
EXTENDS Integers, Sequences, FiniteSets, TLC

\* ------------------------------------------------------------------------
\* Python values and str methods
\* ------------------------------------------------------------------------

NULL == <<"None">>
NaN == <<"nan">>
PyTrue == <<"True">>
PyFalse == <<"False">>

LowerChars == <<"a","b","c","d","e","f","g","h","i","j","k","l","m","n","o","p","q","r","s","t","u","v","w","x","y","z">>
UpperChars == <<"A","B","C","D","E","F","G","H","I","J","K","L","M","N","O","P","Q","R","S","T","U","V","W","X","Y","Z">>
Digits == <<"0","1","2","3","4","5","6","7","8","9">>

Range(s) == {s[i] : i \in DOMAIN s}

IndexOf(c, s) == CHOOSE i \in DOMAIN s : s[i] = c

IsUpperChar(c) == c \in Range(UpperChars)
IsLowerChar(c) == c \in Range(LowerChars)
IsDigit(c) == c \in Range(Digits)
IsSpace(c) == c = " "

UpperChar(c) == IF IsLowerChar(c) THEN UpperChars[IndexOf(c, LowerChars)] ELSE c
LowerChar(c) == IF IsUpperChar(c) THEN LowerChars[IndexOf(c, UpperChars)] ELSE c

\* str.upper(), str.lower()
Upper(s) == [i \in DOMAIN s |-> UpperChar(s[i])]
Lower(s) == [i \in DOMAIN s |-> LowerChar(s[i])]

RECURSIVE LStrip(_)
LStrip(s) == IF s # <<>> /\ IsSpace(Head(s)) THEN LStrip(Tail(s)) ELSE s

RECURSIVE RStrip(_)
RStrip(s) ==
    IF s # <<>> /\ IsSpace(s[Len(s)]) THEN RStrip(SubSeq(s, 1, Len(s) - 1)) ELSE s

\* str.strip()
Strip(s) == RStrip(LStrip(s))

\* re.sub(r'[<chars>]', '', s)
RemoveChars(s, chars) == SelectSeq(s, LAMBDA c : c \notin chars)

\* the Python test `sub in s` on two str
Contains(s, sub) ==
    \E i \in 0..(Len(s) - Len(sub)) : SubSeq(s, i + 1, i + Len(sub)) = sub

\* str(x)
Str(x) ==
    IF x = NULL THEN <<"N","o","n","e">>
    ELSE IF x = NaN THEN <<"n","a","n">>
    ELSE IF x = PyTrue THEN <<"T","r","u","e">>
    ELSE IF x = PyFalse THEN <<"F","a","l","s","e">>
    ELSE x

\* a Python bool as a cell
PyBool(b) == IF b THEN PyTrue ELSE PyFalse

Min(S) == CHOOSE x \in S : \A y \in S : x <= y

\* the first element of the list seq that satisfies P, None when there is none
FirstWhere(seq, P(_)) ==
    LET idx == {i \in DOMAIN seq : P(seq[i])}
    IN  IF idx = {} THEN NULL ELSE seq[Min(idx)]

\* int(s) of a str of digits
RECURSIVE ToInt(_)
ToInt(s) ==
    IF s = <<>> THEN 0
    ELSE 10 * ToInt(SubSeq(s, 1, Len(s) - 1)) + (IndexOf(s[Len(s)], Digits) - 1)

\* str(n) of an int n >= 0
RECURSIVE IntToStr(_)
IntToStr(n) ==
    IF n < 10 THEN <<Digits[n + 1]>>
    ELSE Append(IntToStr(n \div 10), Digits[(n % 10) + 1])

\* str.zfill(width)
RECURSIVE ZFill(_, _)
ZFill(s, width) == IF Len(s) >= width THEN s ELSE ZFill(<<"0">> \o s, width)

AllDigits(s) == \A i \in DOMAIN s : IsDigit(s[i])

\* bool(x) of None, a str or a float nan
Truthy(x) == x # NULL /\ x # <<>>

\* the Python expression `a or b`
Or(a, b) == IF Truthy(a) THEN a ELSE b

\* row.get(key) of a pandas row: None when the column does not exist
Get(row, key) == IF key \in DOMAIN row THEN row[key] ELSE NULL

\* ------------------------------------------------------------------------
\* data_preprocessing.get_delivery_status
\* ------------------------------------------------------------------------

normalize_for_comparison(s) == Upper(RemoveChars(s, {" ", "-", "_"}))

explicit_statuses ==
    << <<"C","A","N","C","E","L","E","D">>, <<"C","A","N","C","E","L","L","E","D">>, <<"C","A","N","C","E","L">>,
       <<"D","E","S","T","R","O","Y","E","D">>, <<"L","O","S","T">>, <<"U","N","T","R","A","C","E","A","B","L","E">>,
       <<"P","I","C","K","U","P"," ","E","X","C","E","P","T","I","O","N">>,
       <<"R","E","A","C","H","E","D"," ","B","A","C","K"," ","A","T","_","S","E","L","L","E","R","_","C","I","T","Y">>,
       <<"R","E","A","C","H","E","D"," ","D","E","S","T","I","N","A","T","I","O","N"," ","H","U","B">>,
       <<"R","T","O"," ","D","E","L","I","V","E","R","E","D">>, <<"R","T","O"," ","I","N"," ","T","R","A","N","S","I","T">>, <<"R","T","O"," ","I","N","I","T","I","A","T","E","D">>, <<"R","T","O"," ","N","D","R">>,
       <<"U","N","D","E","L","I","V","E","R","E","D","-","1","S","T"," ","A","T","T","E","M","P","T">>, <<"U","N","D","E","L","I","V","E","R","E","D","-","2","N","D"," ","A","T","T","E","M","P","T">>,
       <<"U","N","D","E","L","I","V","E","R","E","D","-","3","R","D"," ","A","T","T","E","M","P","T">>,
       <<"U","N","D","E","L","I","V","E","R","E","D","-","1","S","T","-","A","T","T","E","M","P","T">>, <<"U","N","D","E","L","I","V","E","R","E","D","-","2","N","D","-","A","T","T","E","M","P","T">>,
       <<"U","N","D","E","L","I","V","E","R","E","D","-","3","R","D","-","A","T","T","E","M","P","T">>,
       <<"O","U","T"," ","F","O","R"," ","D","E","L","I","V","E","R","Y">>, <<"O","U","T"," ","F","O","R"," ","P","I","C","K","U","P">>, <<"P","I","C","K","E","D"," ","U","P">>,
       <<"I","N"," ","T","R","A","N","S","I","T">>, <<"I","N"," ","T","R","A","N","S","I","T","-","A","T"," ","D","E","S","T","I","N","A","T","I","O","N"," ","H","U","B">> >>

\* lines 165-172: the first truthy of the four status columns, else ''
status_field(row) ==
    Or(Get(row, <<"s","t","a","t","u","s">>),
       Or(Get(row, <<"o","r","i","g","i","n","a","l","_","s","t","a","t","u","s">>),
          Or(Get(row, <<"d","e","l","i","v","e","r","y","_","s","t","a","t","u","s">>),
             Or(Get(row, <<"c","u","r","r","e","n","t","_","s","t","a","t","u","s">>), <<>>))))

status_str_of(row) == Strip(Upper(Str(status_field(row))))

\* lines 192-195: the four-way test of the loop over explicit_statuses
explicit_match(status_str, explicit_status) ==
    LET normalized_status == normalize_for_comparison(status_str)
        normalized_explicit == normalize_for_comparison(explicit_status)
    IN  \/ status_str = explicit_status
        \/ normalized_status = normalized_explicit
        \/ Contains(normalized_explicit, normalized_status)
        \/ Contains(normalized_status, normalized_explicit)

matches_explicit(status_str) ==
    \E i \in DOMAIN explicit_statuses :
        explicit_match(status_str, explicit_statuses[i])

\* lines 196-205: what the loop returns on a match
explicit_result(status_str) ==
    LET normalized_status == normalize_for_comparison(status_str)
    IN  IF Contains(normalized_status, <<"R","T","O","D","E","L","I","V","E","R","E","D">>) THEN <<"R","T","O"," ","D","E","L","I","V","E","R","E","D">>
        ELSE IF Contains(normalized_status, <<"R","T","O","I","N","I","T","I","A","T","E","D">>) THEN <<"R","T","O"," ","I","N","I","T","I","A","T","E","D">>
        ELSE IF Contains(normalized_status, <<"R","T","O","I","N","T","R","A","N","S","I","T">>) THEN <<"R","T","O"," ","I","N"," ","T","R","A","N","S","I","T">>
        ELSE IF Contains(normalized_status, <<"R","T","O","N","D","R">>) THEN <<"R","T","O"," ","N","D","R">>
        ELSE status_str

\* `x and str(x).upper() not in ['N/A', "'", 'NONE', 'NAN']`
date_present(x) ==
    /\ Truthy(x)
    /\ Upper(Str(x)) \notin {<<"N","/","A">>, <<"'">>, <<"N","O","N","E">>, <<"N","A","N">>}

delivered_date_of(row) ==
    Or(Get(row, <<"o","r","d","e","r","_","d","e","l","i","v","e","r","e","d","_","d","a","t","e">>),
       Or(Get(row, <<"d","e","l","i","v","e","r","y","_","d","a","t","e">>), Get(row, <<"d","e","l","i","v","e","r","e","d","_","d","a","t","e">>)))

ndr_date_of(row) == Or(Get(row, <<"l","a","t","e","s","t","_","n","_","d","_","r","_","_","d","a","t","e">>), Get(row, <<"n","d","r","_","d","a","t","e">>))

rto_date_of(row) == Or(Get(row, <<"r","_","t","_","o","_","_","i","n","i","t","i","a","t","e","d","_","_","d","a","t","e">>), Get(row, <<"r","t","o","_","d","a","t","e">>))

rto_delivered_date_of(row) ==
    Or(Get(row, <<"r","_","t","_","o","_","_","d","e","l","i","v","e","r","e","d","_","_","d","a","t","e">>), Get(row, <<"r","t","o","_","d","e","l","i","v","e","r","e","d","_","d","a","t","e">>))

ofd_date_of(row) ==
    Or(Get(row, <<"f","i","r","s","t","_","o","u","t","_","f","o","r","_","d","e","l","i","v","e","r","y","_","d","a","t","e">>), Get(row, <<"l","a","t","e","s","t","_","o","_","f","_","d","_","_","d","a","t","e">>))

has_rto_status(status_str) ==
    LET n == normalize_for_comparison(status_str)
    IN  \/ Contains(n, <<"R","T","O","D","E","L","I","V","E","R","E","D">>)
        \/ Contains(n, <<"R","T","O","I","N","I","T","I","A","T","E","D">>)
        \/ Contains(n, <<"R","T","O","I","N","T","R","A","N","S","I","T">>)
        \/ Contains(n, <<"R","T","O","N","D","R">>)

\* lines 207-259: the date signals and the fallbacks, reached when no
\* explicit status matched
date_derived_status(row, status_str) ==
    IF date_present(delivered_date_of(row)) THEN <<"D","E","L","I","V","E","R","E","D">>
    ELSE IF date_present(ndr_date_of(row)) THEN <<"N","D","R">>
    ELSE IF ~has_rto_status(status_str) /\ date_present(rto_date_of(row))
         THEN IF date_present(rto_delivered_date_of(row))
              THEN <<"R","T","O"," ","D","E","L","I","V","E","R","E","D">>
              ELSE <<"R","T","O"," ","I","N","I","T","I","A","T","E","D">>
    ELSE IF date_present(ofd_date_of(row)) THEN <<"O","F","D">>
    ELSE IF status_str # <<>>
            /\ status_str \notin {<<"N","/","A">>, <<"N","O","N","E">>, <<"N","U","L","L">>, <<>>}
         THEN status_str
    ELSE <<"P","E","N","D","I","N","G">>

\* A variant with the two halves in the other order: the date signals are
\* consulted first and the explicit status only when none of them is present
get_delivery_status_dates_first(row) ==
    LET status_str == status_str_of(row)
        any_date == \/ date_present(delivered_date_of(row))
                    \/ date_present(ndr_date_of(row))
                    \/ date_present(rto_date_of(row))
                    \/ date_present(ofd_date_of(row))
    IN  IF any_date \/ ~matches_explicit(status_str)
        THEN date_derived_status(row, status_str)
        ELSE explicit_result(status_str)

\* lines 159-259
get_delivery_status(row) ==
    LET status_str == status_str_of(row)
    IN  IF matches_explicit(status_str)
        THEN explicit_result(status_str)
        ELSE date_derived_status(row, status_str)

\* ------------------------------------------------------------------------
\* data_preprocessing: the cell parsers
\* ------------------------------------------------------------------------

\* re.sub(r'(?<!^)(?=[A-Z])', '_', name): an underscore before every capital
\* letter that is not the first character
RECURSIVE InsertUnderscores(_, _)
InsertUnderscores(name, i) ==
    IF i > Len(name) THEN <<>>
    ELSE (IF i > 1 /\ IsUpperChar(name[i]) THEN <<"_", name[i]>> ELSE <<name[i]>>)
         \o InsertUnderscores(name, i + 1)

\* re.sub(r'\s+', '_', name): every run of whitespace becomes one underscore
RECURSIVE CollapseSpaces(_, _)
CollapseSpaces(name, i) ==
    IF i > Len(name) THEN <<>>
    ELSE IF IsSpace(name[i])
         THEN (IF i > 1 /\ IsSpace(name[i - 1]) THEN <<>> ELSE <<"_">>)
              \o CollapseSpaces(name, i + 1)
         ELSE <<name[i]>> \o CollapseSpaces(name, i + 1)

to_snake_case(name) ==
    LET stripped == Strip(name)
        marked == InsertUnderscores(stripped, 1)
        lowered == Lower(marked)
        joined == CollapseSpaces(lowered, 1)
    IN  SelectSeq(joined, LAMBDA c : IsLowerChar(c) \/ IsDigit(c) \/ c = "_")

standardize_missing_values(value) ==
    IF value = NULL \/ value = NaN THEN NULL
    ELSE IF value \in {PyTrue, PyFalse} THEN value
    ELSE IF Lower(Strip(value)) \in {<<>>, <<"n","o","n","e">>, <<"n","/","a">>, <<"n","a">>, <<"n","u","l","l">>}
         THEN NULL
    ELSE value

IsLeap(year) == (year % 4 = 0 /\ year % 100 # 0) \/ year % 400 = 0

DaysInMonth(year, month) ==
    IF month = 2 THEN (IF IsLeap(year) THEN 29 ELSE 28)
    ELSE IF month \in {4, 6, 9, 11} THEN 30 ELSE 31

\* datetime(year, month, day) succeeds
ValidDate(year, month, day) ==
    /\ year \in 1..9999
    /\ month \in 1..12
    /\ day \in 1..DaysInMonth(year, month)

\* a datetime at midnight, written as its ISO date 'YYYY-MM-DD'
MakeDate(year, month, day) ==
    ZFill(IntToStr(year), 4) \o <<"-">> \o ZFill(IntToStr(month), 2)
        \o <<"-">> \o ZFill(IntToStr(day), 2)

YearOf(date) == ToInt(SubSeq(date, 1, 4))
MonthOf(date) == ToInt(SubSeq(date, 6, 7))
DayOf(date) == ToInt(SubSeq(date, 9, 10))

\* the positions of '/' in s
SlashAt(s) == {i \in DOMAIN s : s[i] = "/"}

\* re.match(r'^(\d{1,2})/(\d{1,2})/(\d{2,4})$', s)
MatchesMDY(s) ==
    /\ Cardinality(SlashAt(s)) = 2
    /\ LET a == Min(SlashAt(s))
           b == Min(SlashAt(s) \ {a})
           g1 == SubSeq(s, 1, a - 1)
           g2 == SubSeq(s, a + 1, b - 1)
           g3 == SubSeq(s, b + 1, Len(s))
       IN  /\ Len(g1) \in 1..2 /\ AllDigits(g1)
           /\ Len(g2) \in 1..2 /\ AllDigits(g2)
           /\ Len(g3) \in 2..4 /\ AllDigits(g3)

\* lines 61-74: the date of a MM/DD/YY or MM/DD/YYYY match, None when
\* datetime() raises ValueError
ParseMDY(s) ==
    LET a == Min(SlashAt(s))
        b == Min(SlashAt(s) \ {a})
        month == ToInt(SubSeq(s, 1, a - 1))
        day == ToInt(SubSeq(s, a + 1, b - 1))
        y == ToInt(SubSeq(s, b + 1, Len(s)))
        year == IF y < 100 THEN (IF y < 50 THEN 2000 + y ELSE 1900 + y) ELSE y
    IN  IF ValidDate(year, month, day) THEN MakeDate(year, month, day) ELSE NULL

\* pd.to_datetime(s, errors='coerce') on the strings of the model: an ISO
\* date 'YYYY-MM-DD' parses to that date, any other string to NaT
IsISODate(s) ==
    /\ Len(s) = 10
    /\ s[5] = "-" /\ s[8] = "-"
    /\ AllDigits(SubSeq(s, 1, 4)) /\ AllDigits(SubSeq(s, 6, 7))
    /\ AllDigits(SubSeq(s, 9, 10))
    /\ ValidDate(YearOf(s), MonthOf(s), DayOf(s))

to_datetime(s) == IF IsISODate(s) THEN s ELSE NULL

parse_date(date_str) ==
    IF date_str = NULL \/ date_str = NaN THEN NULL
    ELSE LET standardized == standardize_missing_values(date_str)
         IN  IF ~Truthy(standardized) THEN NULL
             ELSE LET date_string == Strip(Str(standardized))
                  IN  IF Upper(date_string) = <<"N","/","A">> \/ date_string = <<"'">>
                      THEN NULL
                      ELSE IF MatchesMDY(date_string) /\ ParseMDY(date_string) # NULL
                      THEN ParseMDY(date_string)
                      ELSE to_datetime(date_string)

parse_boolean(value) ==
    IF value = NULL \/ value = NaN THEN PyFalse
    ELSE PyBool(Lower(Strip(Str(value))) \in {<<"t","r","u","e">>, <<"y","e","s">>, <<"1">>, <<"y">>})

\* re.sub(r'[^0-9.-]', '', s)
numeric_chars(s) == SelectSeq(s, LAMBDA c : IsDigit(c) \/ c \in {".", "-"})

RECURSIVE StripLeadingZeros(_)
StripLeadingZeros(s) ==
    IF Len(s) > 1 /\ Head(s) = "0" THEN StripLeadingZeros(Tail(s)) ELSE s

RECURSIVE StripTrailingZeros(_)
StripTrailingZeros(s) ==
    IF Len(s) > 1 /\ s[Len(s)] = "0"
    THEN StripTrailingZeros(SubSeq(s, 1, Len(s) - 1))
    ELSE s

\* float(num_str) of a str of digits, '.' and '-', written as Python writes
\* the float: '1500.00' is 1500.0, '007.5' is 7.5, '.5' is 0.5; None where
\* float() raises ValueError
float_of(num_str) ==
    LET negative == num_str # <<>> /\ Head(num_str) = "-"
        body == IF negative THEN Tail(num_str) ELSE num_str
        dots == {i \in DOMAIN body : body[i] = "."}
        dot == IF dots = {} THEN Len(body) + 1 ELSE Min(dots)
        whole == SubSeq(body, 1, dot - 1)
        fraction == SubSeq(body, dot + 1, Len(body))
    IN  IF \/ Cardinality(dots) > 1
           \/ ~AllDigits(whole) \/ ~AllDigits(fraction)
           \/ whole \o fraction = <<>>
        THEN NULL
        ELSE (IF negative THEN <<"-">> ELSE <<>>)
             \o StripLeadingZeros(IF whole = <<>> THEN <<"0">> ELSE whole)
             \o <<".">>
             \o StripTrailingZeros(IF fraction = <<>> THEN <<"0">> ELSE fraction)

\* a number cell holds the float as Python writes it
parse_number(value) ==
    IF value = NULL \/ value = NaN \/ value = PyFalse THEN NULL
    ELSE IF value = PyTrue THEN <<"1",".","0">>
    ELSE IF standardize_missing_values(value) = NULL THEN NULL
    ELSE IF standardize_missing_values(value) = <<>> THEN NULL
    ELSE float_of(numeric_chars(Str(standardize_missing_values(value))))

\* A variant whose last bucket always ends on the 31st
last_day_31(year, month) == 31

\* lines 139-146: the last day of the month
last_day(year, month) ==
    IF month = 12 THEN 31
    ELSE IF month \in {4, 6, 9, 11} THEN 30
    ELSE IF month = 2
    THEN IF (year % 4 = 0 /\ year % 100 # 0) \/ year % 400 = 0 THEN 29 ELSE 28
    ELSE 31

\* lines 116-156
get_order_week(date) ==
    IF date = NULL THEN NULL
    ELSE LET year == YearOf(date)
             month == MonthOf(date)
             day == DayOf(date)
             week_start ==
                 IF day <= 7 THEN 1
                 ELSE IF day <= 14 THEN 8
                 ELSE IF day <= 21 THEN 15
                 ELSE IF day <= 28 THEN 22
                 ELSE 29
             week_end ==
                 IF day <= 7 THEN 7
                 ELSE IF day <= 14 THEN 14
                 ELSE IF day <= 21 THEN 21
                 ELSE IF day <= 28 THEN 28
                 ELSE last_day(year, month)
         IN  IntToStr(year) \o <<"-">> \o ZFill(IntToStr(month), 2) \o <<"-">>
                 \o ZFill(IntToStr(week_start), 2) \o <<"-">>
                 \o ZFill(IntToStr(week_end), 2)

\* row.get(key, '') or '' and its two-column form, as a str
text_of(row, first, second) == Str(Or(Get(row, first), Or(Get(row, second), <<>>)))

\* lines 262-284
get_address_quality(row) ==
    LET address_line1 == text_of(row, <<"a","d","d","r","e","s","s","_","l","i","n","e","_","1">>, <<"a","d","d","r","e","s","s","_","l","i","n","e","_","1">>)
        address_line2 == text_of(row, <<"a","d","d","r","e","s","s","_","l","i","n","e","_","2">>, <<"a","d","d","r","e","s","s","_","l","i","n","e","_","2">>)
        city == text_of(row, <<"c","i","t","y">>, <<"a","d","d","r","e","s","s","_","c","i","t","y">>)
        state == text_of(row, <<"s","t","a","t","e">>, <<"a","d","d","r","e","s","s","_","s","t","a","t","e">>)
        pincode == text_of(row, <<"p","i","n","c","o","d","e">>, <<"a","d","d","r","e","s","s","_","p","i","n","c","o","d","e">>)
        full_address ==
            Strip(address_line1 \o <<" ">> \o address_line2 \o <<" ">> \o city
                  \o <<" ">> \o state \o <<" ">> \o pincode)
        none_like(x) == Lower(x) \in {<<"n","o","n","e">>, <<"n","/","a">>}
    IN  IF address_line1 = <<>> \/ none_like(address_line1) \/ Len(full_address) < 10
        THEN <<"I","N","V","A","L","I","D">>
        ELSE IF \/ city = <<>> \/ state = <<>> \/ pincode = <<>>
                \/ none_like(city) \/ none_like(state) \/ none_like(pincode)
             THEN <<"S","H","O","R","T">>
        ELSE IF Len(full_address) < 30 THEN <<"S","H","O","R","T">>
        ELSE <<"G","O","O","D">>

\* ------------------------------------------------------------------------
\* data_preprocessing.preprocess_shipping_data
\*
\* A table is [columns, rows]: the set of column names and the list of rows,
\* each row a function from the column names to cells.  The function carries
\* the normalized source columns, the six ISO date columns, the number
\* columns, the field mappings, order_week, ndr_flag, rto_flag,
\* cancelled_flag, delivery_status, address_quality, order_risk_score and
\* processed_at; the four turnaround columns are not carried.
\*
\* pd.concat(axis=1) appends its columns without looking at the labels the
\* frame already has, so a label can come to name two columns.  A row holds
\* one cell per label, the one of the column added last, and the labels that
\* name two columns are kept beside the table as `duplicated`.
\* ------------------------------------------------------------------------

Table(columns, rows) == [columns |-> columns, rows |-> rows]

\* a one-column row
Col(name, value) == [c \in {name} |-> value]

\* lines 311-315: normalize_keys, then standardize_missing_values on every cell
normalize_and_standardize(df) ==
    LET columns == {to_snake_case(h) : h \in df.columns}
        header(c) == CHOOSE h \in df.columns : to_snake_case(h) = c
    IN  Table(columns,
              [i \in DOMAIN df.rows |->
                  [c \in columns |-> standardize_missing_values(df.rows[i][header(c)])]])

DateTargets ==
    << <<"o","r","d","e","r","_","d","a","t","e">>, <<"p","i","c","k","u","p","_","d","a","t","e">>, <<"o","f","d","_","d","a","t","e">>, <<"d","e","l","i","v","e","r","y","_","d","a","t","e">>,
       <<"n","d","r","_","d","a","t","e">>, <<"r","t","o","_","d","a","t","e">> >>

date_fields(target) ==
    CASE target = <<"o","r","d","e","r","_","d","a","t","e">> ->
            << <<"s","h","i","p","r","o","c","k","e","t","_","_","c","r","e","a","t","e","d","_","_","a","t">>, <<"s","h","i","p","r","o","c","k","e","t","_","c","r","e","a","t","e","d","_","a","t">>,
               <<"c","h","a","n","n","e","l","_","_","c","r","e","a","t","e","d","_","_","a","t">>, <<"c","h","a","n","n","e","l","_","c","r","e","a","t","e","d","_","a","t">>, <<"o","r","d","e","r","_","d","a","t","e">>,
               <<"o","r","d","e","r","_","p","l","a","c","e","d","_","d","a","t","e">>, <<"c","r","e","a","t","e","d","_","a","t">> >>
      [] target = <<"p","i","c","k","u","p","_","d","a","t","e">> ->
            << <<"o","r","d","e","r","_","_","p","i","c","k","e","d","_","_","u","p","_","_","d","a","t","e">>, <<"o","r","d","e","r","_","p","i","c","k","e","d","_","u","p","_","d","a","t","e">>,
               <<"p","i","c","k","e","d","u","p","_","_","t","i","m","e","s","t","a","m","p">>, <<"p","i","c","k","e","d","u","p","_","t","i","m","e","s","t","a","m","p">>, <<"p","i","c","k","u","p","_","d","a","t","e">>,
               <<"p","i","c","k","u","p","_","d","a","t","e","t","i","m","e">>, <<"p","i","c","k","u","p","_","_","f","i","r","s","t","_","_","a","t","t","e","m","p","t","_","_","d","a","t","e">>,
               <<"p","i","c","k","u","p","_","f","i","r","s","t","_","a","t","t","e","m","p","t","_","d","a","t","e">> >>
      [] target = <<"o","f","d","_","d","a","t","e">> ->
            << <<"f","i","r","s","t","_","_","o","u","t","_","_","f","o","r","_","_","d","e","l","i","v","e","r","y","_","_","d","a","t","e">>, <<"f","i","r","s","t","_","o","u","t","_","f","o","r","_","d","e","l","i","v","e","r","y","_","d","a","t","e">>,
               <<"l","a","t","e","s","t","_","_","o","_","f","_","d","_","_","d","a","t","e">>, <<"l","a","t","e","s","t","_","o","_","f","_","d","_","_","d","a","t","e">>, <<"l","a","t","e","s","t","_","o","f","d","_","d","a","t","e">>,
               <<"o","f","d","_","d","a","t","e">>, <<"o","f","d","_","d","a","t","e","t","i","m","e">>, <<"o","u","t","_","f","o","r","_","d","e","l","i","v","e","r","y","_","d","a","t","e">> >>
      [] target = <<"d","e","l","i","v","e","r","y","_","d","a","t","e">> ->
            << <<"o","r","d","e","r","_","_","d","e","l","i","v","e","r","e","d","_","_","d","a","t","e">>, <<"o","r","d","e","r","_","d","e","l","i","v","e","r","e","d","_","d","a","t","e">>,
               <<"d","e","l","i","v","e","r","y","_","d","a","t","e">>, <<"d","e","l","i","v","e","r","e","d","_","d","a","t","e">>, <<"d","e","l","i","v","e","r","e","d","_","d","a","t","e","t","i","m","e">> >>
      [] target = <<"n","d","r","_","d","a","t","e">> ->
            << <<"l","a","t","e","s","t","_","_","n","_","d","_","r","_","_","d","a","t","e">>, <<"l","a","t","e","s","t","_","n","_","d","_","r","_","_","d","a","t","e">>, <<"l","a","t","e","s","t","_","n","d","r","_","d","a","t","e">>,
               <<"n","_","d","_","r","_","1","_","_","a","t","t","e","m","p","t","_","_","d","a","t","e">>, <<"n","d","r","_","1","_","a","t","t","e","m","p","t","_","d","a","t","e">>,
               <<"n","d","r","_","2","_","a","t","t","e","m","p","t","_","d","a","t","e">>, <<"n","d","r","_","3","_","a","t","t","e","m","p","t","_","d","a","t","e">>, <<"n","d","r","_","d","a","t","e">>,
               <<"n","d","r","_","d","a","t","e","t","i","m","e">> >>
      [] target = <<"r","t","o","_","d","a","t","e">> ->
            << <<"r","_","t","_","o","_","_","i","n","i","t","i","a","t","e","d","_","_","d","a","t","e">>, <<"r","_","t","_","o","_","_","d","e","l","i","v","e","r","e","d","_","_","d","a","t","e">>,
               <<"r","t","o","_","i","n","i","t","i","a","t","e","d","_","d","a","t","e">>, <<"r","t","o","_","d","e","l","i","v","e","r","e","d","_","d","a","t","e">>, <<"r","t","o","_","d","a","t","e">>,
               <<"r","t","o","_","d","a","t","e","t","i","m","e">> >>

\* lines 332-344: parsed_dates[target], the first source column that exists
\* and has at least one parseable cell; None when no source qualifies
parsed_dates(df, target) ==
    FirstWhere(date_fields(target),
               LAMBDA source :
                   /\ source \in df.columns
                   /\ \E i \in DOMAIN df.rows : parse_date(df.rows[i][source]) # NULL)

\* the cell of row i in the parsed datetime column of target
parsed_cell(df, i, target) ==
    LET source == parsed_dates(df, target)
    IN  IF source = NULL THEN NULL ELSE parse_date(df.rows[i][source])

\* x.strftime('%Y-%m-%d')
strftime_ymd(x) ==
    IF x = NULL THEN NULL ELSE MakeDate(YearOf(x), MonthOf(x), DayOf(x))

\* lines 341-354: the ISO date columns of row i
date_string_cols(df, i) ==
    [ t \in {DateTargets[k] : k \in {j \in DOMAIN DateTargets :
                                        parsed_dates(df, DateTargets[j]) # NULL}} |->
        strftime_ymd(parsed_cell(df, i, t)) ]

NumberTargets == << <<"o","r","d","e","r","_","v","a","l","u","e">>, <<"o","r","d","e","r","_","p","r","i","c","e">>, <<"w","e","i","g","h","t">>, <<"o","r","d","e","r","_","r","i","s","k","_","s","c","o","r","e">> >>

number_fields(target) ==
    CASE target = <<"o","r","d","e","r","_","v","a","l","u","e">> ->
            << <<"o","r","d","e","r","_","t","o","t","a","l">>, <<"o","r","d","e","r","_","v","a","l","u","e">>, <<"p","r","i","c","e">>, <<"a","m","o","u","n","t">>,
               <<"g","m","v","_","a","m","o","u","n","t">>, <<"t","o","t","a","l","_","o","r","d","e","r","_","v","a","l","u","e">> >>
      [] target = <<"o","r","d","e","r","_","p","r","i","c","e">> -> << <<"p","r","o","d","u","c","t","_","p","r","i","c","e">> >>
      [] target = <<"w","e","i","g","h","t">> -> << <<"w","e","i","g","h","t","_","k","_","g">>, <<"w","e","i","g","h","t">> >>
      [] target = <<"o","r","d","e","r","_","r","i","s","k","_","s","c","o","r","e">> -> << <<"o","r","d","e","r","_","r","i","s","k">>, <<"a","d","d","r","e","s","s","_","s","c","o","r","e">> >>

\* lines 366-370: df[target] = df[source].apply(parse_number) for each source
\* column that exists, in order, until one gives a value in some row.  Once
\* the target is assigned it is itself a column, so a later source of the
\* same name reads the cells just assigned, which are all None.
number_source_reads_target(df, target, k) ==
    /\ number_fields(target)[k] = target
    /\ \E j \in 1..(k - 1) : number_fields(target)[j] \in df.columns

number_source_present(df, target, k) ==
    \/ number_fields(target)[k] \in df.columns
    \/ number_source_reads_target(df, target, k)

number_parsed(df, target, k, i) ==
    IF number_source_reads_target(df, target, k) THEN NULL
    ELSE parse_number(df.rows[i][number_fields(target)[k]])

\* the index of the source whose parsed cells the target holds after the
\* loop, 0 when no source column exists
number_source(df, target) ==
    LET present == {k \in DOMAIN number_fields(target) :
                        number_source_present(df, target, k)}
        hit == {k \in present :
                    \E i \in DOMAIN df.rows : number_parsed(df, target, k, i) # NULL}
    IN  IF present = {} THEN 0
        ELSE IF hit # {} THEN Min(hit)
        ELSE CHOOSE k \in present : \A j \in present : j <= k

\* lines 365-370: the loop over number_fields
with_numbers(df) ==
    LET assigned == {t \in Range(NumberTargets) : number_source(df, t) # 0}
    IN  Table(df.columns \cup assigned,
              [i \in DOMAIN df.rows |->
                  [c \in df.columns \cup assigned |->
                      IF c \in assigned
                      THEN number_parsed(df, c, number_source(df, c), i)
                      ELSE df.rows[i][c]]])

boolean_fields ==
    { <<"n","d","r">>, <<"r","t","o">>, <<"c","a","n","c","e","l","l","e","d">>, <<"c","a","n","c","e","l","e","d">>, <<"a","d","d","r","e","s","s","_","v","e","r","i","f","i","e","d">>,
      <<"i","s","_","v","e","r","i","f","i","e","d">> }

\* lines 374-377: parse_boolean in place on the boolean columns
with_booleans(row) ==
    [ c \in DOMAIN row |-> IF c \in boolean_fields THEN parse_boolean(row[c]) ELSE row[c] ]

\* the first of the candidate columns that exists, None when none does
first_present(df, fields) == FirstWhere(fields, LAMBDA f : f \in df.columns)

\* lines 466-469: fillna('Uncategorized') and the null markers of category
clean_category(c) ==
    IF c = NULL \/ c \in {<<"n","o","n","e">>, <<"N","/","A">>, <<>>} THEN <<"U","n","c","a","t","e","g","o","r","i","z","e","d">> ELSE c

\* a mapped column, absent when no candidate column exists
mapped(df, i, target, fields) ==
    IF first_present(df, fields) = NULL THEN [c \in {} |-> NULL]
    ELSE Col(target, df.rows[i][first_present(df, fields)])

\* lines 380-464: the field mappings of row i
field_mappings(df, i) ==
    LET category ==
            IF \/ first_present(df, << <<"p","r","o","d","u","c","t","_","c","a","t","e","g","o","r","y">>, <<"c","a","t","e","g","o","r","y">> >>) = NULL
               \/ /\ <<"c","a","t","e","g","o","r","y">> \in df.columns
                  /\ \A j \in DOMAIN df.rows : df.rows[j][<<"c","a","t","e","g","o","r","y">>] = NULL
            THEN Col(<<"c","a","t","e","g","o","r","y">>, <<"U","n","c","a","t","e","g","o","r","i","z","e","d">>)
            ELSE Col(<<"c","a","t","e","g","o","r","y">>,
                     clean_category(df.rows[i][first_present(df,
                         << <<"p","r","o","d","u","c","t","_","c","a","t","e","g","o","r","y">>, <<"c","a","t","e","g","o","r","y">> >>)]))
        channel ==
            IF first_present(df, << <<"c","h","a","n","n","e","l">>, <<"c","h","a","n","n","e","l","_","_">> >>) = NULL
            THEN Col(<<"c","h","a","n","n","e","l">>, NULL)
            ELSE mapped(df, i, <<"c","h","a","n","n","e","l">>, << <<"c","h","a","n","n","e","l">>, <<"c","h","a","n","n","e","l","_","_">> >>)
    IN  category @@ channel
        @@ mapped(df, i, <<"s","t","a","t","e">>, << <<"a","d","d","r","e","s","s","_","s","t","a","t","e">>, <<"s","t","a","t","e">> >>)
        @@ mapped(df, i, <<"a","d","d","r","e","s","s","_","l","i","n","e","_","1">>, << <<"a","d","d","r","e","s","s","_","l","i","n","e","_","1">>, <<"a","d","d","r","e","s","s","_","l","i","n","e","1">> >>)
        @@ mapped(df, i, <<"a","d","d","r","e","s","s","_","l","i","n","e","_","2">>, << <<"a","d","d","r","e","s","s","_","l","i","n","e","_","2">>, <<"a","d","d","r","e","s","s","_","l","i","n","e","2">> >>)
        @@ mapped(df, i, <<"c","i","t","y">>, << <<"a","d","d","r","e","s","s","_","c","i","t","y">>, <<"c","i","t","y">> >>)
        @@ mapped(df, i, <<"p","i","n","c","o","d","e">>, << <<"a","d","d","r","e","s","s","_","p","i","n","c","o","d","e">>, <<"p","i","n","c","o","d","e">> >>)
        @@ mapped(df, i, <<"s","k","u">>, << <<"m","a","s","t","e","r","_","s","_","k","_","u">>, <<"c","h","a","n","n","e","l","_","s","_","k","_","u">>, <<"s","k","u">> >>)
        @@ mapped(df, i, <<"p","r","o","d","u","c","t","_","n","a","m","e">>, << <<"p","r","o","d","u","c","t","_","n","a","m","e">>, <<"p","r","o","d","u","c","t","_","_","n","a","m","e">> >>)
        @@ mapped(df, i, <<"p","a","y","m","e","n","t","_","m","e","t","h","o","d">>, << <<"p","a","y","m","e","n","t","_","m","e","t","h","o","d">>, <<"p","a","y","m","e","n","t","_","_","m","e","t","h","o","d">> >>)
        @@ mapped(df, i, <<"o","r","i","g","i","n","a","l","_","s","t","a","t","u","s">>, << <<"s","t","a","t","u","s">> >>)

\* lines 482-483: df.get('status').astype(str).str.upper()
status_upper(df, i) ==
    IF <<"s","t","a","t","u","s">> \in df.columns
    THEN Upper(Str(df.rows[i][<<"s","t","a","t","u","s">>]))
    ELSE Upper(Str(NaN))

\* lines 506-518
cancelled_flag(df, i) ==
    LET by_status == Contains(status_upper(df, i), <<"C","A","N","C","E","L">>)
        field == first_present(df, << <<"c","a","n","c","e","l","l","a","t","i","o","n","_","r","e","a","s","o","n">>, <<"c","a","n","c","e","l","l","a","t","i","o","n","_","_","r","e","a","s","o","n">> >>)
    IN  IF field = NULL THEN by_status
        ELSE \/ by_status
             \/ /\ df.rows[i][field] # NULL
                /\ df.rows[i][field] \notin {<<"n","o","n","e">>, <<"N","/","A">>, <<>>}

\* lines 492-504: the flag is the notna() of the parsed date column
ndr_flag(df, i) == parsed_cell(df, i, <<"n","d","r","_","d","a","t","e">>) # NULL
rto_flag(df, i) == parsed_cell(df, i, <<"r","t","o","_","d","a","t","e">>) # NULL

\* line 477
order_week(df, i) == get_order_week(parsed_cell(df, i, <<"o","r","d","e","r","_","d","a","t","e">>))

\* the row get_delivery_status sees at line 521: the source columns, the ISO
\* date columns, the field mappings, order_week and status_upper
row_at_classification(df, i) ==
    Col(<<"o","r","d","e","r","_","w","e","e","k">>, order_week(df, i))
    @@ Col(<<"s","t","a","t","u","s","_","u","p","p","e","r">>, status_upper(df, i))
    @@ field_mappings(df, i)
    @@ date_string_cols(df, i)
    @@ with_booleans(df.rows[i])

\* lines 524-591: the columns added after the classification; processed_at
\* is datetime.now(), the tick `now` of the clock
derived_row(df, i, row, now) ==
    Col(<<"d","e","l","i","v","e","r","y","_","s","t","a","t","u","s">>, get_delivery_status(row))
    @@ Col(<<"a","d","d","r","e","s","s","_","q","u","a","l","i","t","y">>, get_address_quality(row))
    @@ Col(<<"n","d","r","_","f","l","a","g">>, PyBool(ndr_flag(df, i)))
    @@ Col(<<"r","t","o","_","f","l","a","g">>, PyBool(rto_flag(df, i)))
    @@ Col(<<"c","a","n","c","e","l","l","e","d","_","f","l","a","g">>, PyBool(cancelled_flag(df, i)))
    @@ Col(<<"p","r","o","c","e","s","s","e","d","_","a","t">>, IntToStr(now))
    @@ [c \in DOMAIN row \ {<<"s","t","a","t","u","s","_","u","p","p","e","r">>} |-> row[c]]
    @@ Col(<<"o","r","d","e","r","_","r","i","s","k","_","s","c","o","r","e">>, <<"0">>)

preprocess_row(df, i, now) ==
    CHOOSE out \in {derived_row(df, i, row, now) : row \in {row_at_classification(df, i)}} :
        TRUE

\* a frame of the same columns with one row of None cells: the labels of the
\* field mappings depend on the column set alone
label_probe(df) == Table(df.columns, << [c \in df.columns |-> NULL] >>)

\* the labels the pd.concat calls of lines 354, 464, 490, 529 and 591 append
\* to the frame df of line 377
concat_labels(df) ==
    {t \in Range(DateTargets) : parsed_dates(df, t) # NULL}
    \cup DOMAIN field_mappings(label_probe(df), 1)
    \cup { <<"o","r","d","e","r","_","w","e","e","k">>, <<"s","t","a","t","u","s","_","u","p","p","e","r">>, <<"n","d","r","_","f","l","a","g">>, <<"r","t","o","_","f","l","a","g">>,
           <<"c","a","n","c","e","l","l","e","d","_","f","l","a","g">>, <<"d","e","l","i","v","e","r","y","_","s","t","a","t","u","s">>, <<"a","d","d","r","e","s","s","_","q","u","a","l","i","t","y">>,
           <<"p","r","o","c","e","s","s","e","d","_","a","t">> }
    \cup (IF <<"o","r","d","e","r","_","r","i","s","k","_","s","c","o","r","e">> \in df.columns THEN {} ELSE {<<"o","r","d","e","r","_","r","i","s","k","_","s","c","o","r","e">>})

\* the labels that come to name two columns
duplicated_labels(df) == df.columns \cap concat_labels(df)

\* get_address_quality (lines 264-268) evaluates `row.get(label, '') or ...`
\* on each of these labels: on a label of two columns row.get gives a Series,
\* whose truth value raises ValueError.  Line 512 or 518 reads
\* df['status_upper'].str, which a frame of two columns does not have.
labels_read_as_scalar ==
    { <<"a","d","d","r","e","s","s","_","l","i","n","e","_","1">>, <<"a","d","d","r","e","s","s","_","l","i","n","e","_","2">>, <<"c","i","t","y">>, <<"s","t","a","t","e">>, <<"p","i","n","c","o","d","e">>,
      <<"s","t","a","t","u","s","_","u","p","p","e","r">> }

\* labels read where two columns may or may not raise: line 469 indexes
\* df.loc with df['category'].isin(...), get_delivery_status reads the others
\* behind an `or` that an earlier truthy operand short-circuits
labels_read_maybe ==
    { <<"c","a","t","e","g","o","r","y">>, <<"o","r","i","g","i","n","a","l","_","s","t","a","t","u","s">>, <<"d","e","l","i","v","e","r","y","_","d","a","t","e">>, <<"n","d","r","_","d","a","t","e">>,
      <<"r","t","o","_","d","a","t","e">> }

PreRaised(error) == [raised |-> TRUE, error |-> error, df |-> Table({}, <<>>),
                     duplicated |-> {}]
PreReturned(df, duplicated) == [raised |-> FALSE, error |-> "", df |-> df,
                                duplicated |-> duplicated]

\* lines 379-597 on the frame df of line 377, when no statement raises
preprocess_frame(df, now) ==
    LET rows == [i \in DOMAIN df.rows |-> preprocess_row(df, i, now)]
    IN  Table(IF rows = <<>> THEN df.columns ELSE DOMAIN rows[1], rows)

\* lines 379-597 on the frame df of line 377
preprocess_outcomes(df, now) ==
    LET duplicated == duplicated_labels(df)
        returned == PreReturned(preprocess_frame(df, now),
                                duplicated \ {<<"s","t","a","t","u","s","_","u","p","p","e","r">>})
    IN  IF duplicated \cap labels_read_as_scalar # {}
        THEN {PreRaised("ValueError")}
        ELSE IF duplicated \cap labels_read_maybe # {}
             THEN {PreRaised("ValueError"), returned}
        ELSE {returned}

\* lines 299-597: the outcomes of one call, on a frame of at least one row
preprocess_shipping_data(raw, now) ==
    UNION { preprocess_outcomes(df, now) :
                df \in {with_numbers(normalize_and_standardize(raw))} }

\* ------------------------------------------------------------------------
\* analytics: column resolution and normalize_dataframe_pl
\*
\* A Polars column holds str cells, null (NULL), booleans (PyTrue, PyFalse)
\* or numbers; a number is written as its decimal digits.  A datetime is
\* written 'YYYY-MM-DD HH:MM:SS'.
\* ------------------------------------------------------------------------

COLUMN_MAP(field) ==
    CASE field = "status" -> << <<"o","r","i","g","i","n","a","l","_","s","t","a","t","u","s">>, <<"s","t","a","t","u","s">>, <<"d","e","l","i","v","e","r","y","_","s","t","a","t","u","s">> >>
      [] field = "order_date" ->
            << <<"o","r","d","e","r","_","d","a","t","e">>, <<"o","r","d","e","r","_","_","d","a","t","e">>, <<"c","r","e","a","t","e","d","_","a","t">>,
               <<"s","h","i","p","r","o","c","k","e","t","_","_","c","r","e","a","t","e","d","_","_","a","t">>, <<"s","h","i","p","r","o","c","k","e","t","_","c","r","e","a","t","e","d","_","a","t">> >>
      [] field = "order_value" ->
            << <<"o","r","d","e","r","_","v","a","l","u","e">>, <<"g","m","v","_","a","m","o","u","n","t">>, <<"o","r","d","e","r","_","t","o","t","a","l">>, <<"o","r","d","e","r","_","_","t","o","t","a","l">>,
               <<"t","o","t","a","l","_","o","r","d","e","r","_","v","a","l","u","e">> >>
      [] field = "payment" ->
            << <<"p","a","y","m","e","n","t","_","_","m","e","t","h","o","d">>, <<"p","a","y","m","e","n","t","_","m","e","t","h","o","d">>, <<"p","a","y","m","e","n","t","m","e","t","h","o","d">>,
               <<"p","a","y","m","e","n","t">>, <<"m","e","t","h","o","d">>, <<"t","y","p","e">>, <<"P","a","y","m","e","n","t"," ","T","y","p","e">> >>
      [] field = "state" ->
            << <<"s","t","a","t","e">>, <<"a","d","d","r","e","s","s","_","_","s","t","a","t","e">>, <<"A","d","d","r","e","s","s"," ","S","t","a","t","e">>, <<"a","d","d","r","e","s","s","_","s","t","a","t","e">> >>
      [] field = "sku" ->
            << <<"c","h","a","n","n","e","l","_","_","s","_","k","_","u">>, <<"m","a","s","t","e","r","_","_","s","_","k","_","u">>, <<"m","a","s","t","e","r","_","s","k","u">>,
               <<"m","a","s","t","e","r","_","s","_","k","_","u">>, <<"s","k","u">>, <<"c","h","a","n","n","e","l","_","s","k","u">>, <<"c","h","a","n","n","e","l","_","s","_","k","_","u">> >>
      [] field = "product" ->
            << <<"p","r","o","d","u","c","t","_","_","n","a","m","e">>, <<"p","r","o","d","u","c","t","_","n","a","m","e">>, <<"p","r","o","d","u","c","t","_","_","n","a","m","e">> >>
      [] field = "courier" ->
            << <<"c","o","u","r","i","e","r","_","c","o","m","p","a","n","y">>, <<"c","o","u","r","i","e","r","_","_","c","o","m","p","a","n","y">>, <<"m","a","s","t","e","r","_","c","o","u","r","i","e","r">>,
               <<"m","a","s","t","e","r","_","_","c","o","u","r","i","e","r">>, <<"c","o","u","r","i","e","r","_","n","a","m","e">> >>
      [] field = "channel" ->
            << <<"c","h","a","n","n","e","l">>, <<"s","o","u","r","c","e">>, <<"p","l","a","t","f","o","r","m">>, <<"c","h","a","n","n","e","l","_","n","a","m","e">> >>
      [] field = "ndr_description" ->
            << <<"l","a","t","e","s","t","_","_","n","_","d","_","r","_","_","r","e","a","s","o","n">>, <<"l","a","t","e","s","t","_","n","d","r","_","r","e","a","s","o","n">>, <<"n","d","r","_","r","e","a","s","o","n">>,
               <<"n","d","r","_","d","e","s","c","r","i","p","t","i","o","n">>, <<"r","e","a","s","o","n">> >>

\* A variant that returns the last of the keys that is a column
resolve_column_last(df_columns, keys) ==
    LET idx == {i \in DOMAIN keys : keys[i] \in df_columns}
    IN  IF idx = {} THEN NULL ELSE keys[CHOOSE i \in idx : \A j \in idx : j <= i]

\* lines 34-40: df_columns is read with `in` only
resolve_column(df_columns, keys) == FirstWhere(keys, LAMBDA c : c \in df_columns)

\* cast(pl.Utf8).str.strip_chars().str.to_uppercase(); null stays null
strip_upper(cell) == IF cell = NULL THEN NULL ELSE Upper(Strip(Str(cell)))

\* str.replace_all("[_-]", " ")
replace_separators(s) == [i \in DOMAIN s |-> IF s[i] \in {"_", "-"} THEN " " ELSE s[i]]

\* lines 50-54
status_expr(columns, row) ==
    LET status_col == resolve_column(columns, COLUMN_MAP("status"))
    IN  IF status_col = NULL THEN <<"U","N","K","N","O","W","N">>
        ELSE IF row[status_col] = NULL THEN NULL
        ELSE Strip(replace_separators(Upper(Str(row[status_col]))))

\* lines 57-61
payment_expr(columns, row) ==
    LET payment_col == resolve_column(columns, COLUMN_MAP("payment"))
    IN  IF payment_col = NULL THEN <<"N","A","N">> ELSE strip_upper(row[payment_col])

IsDigits(cell) == cell # <<>> /\ AllDigits(cell)

\* lines 64-68: cast(pl.Float64, strict=False).fill_null(0.0)
order_value_expr(columns, row) ==
    LET order_value_col == resolve_column(columns, COLUMN_MAP("order_value"))
    IN  IF order_value_col = NULL THEN <<"0">>
        ELSE IF IsDigits(row[order_value_col]) THEN IntToStr(ToInt(row[order_value_col]))
        ELSE <<"0">>

IsISODateTime(s) ==
    /\ Len(s) = 19
    /\ IsISODate(SubSeq(s, 1, 10))
    /\ s[11] = " " /\ s[14] = ":" /\ s[17] = ":"
    /\ AllDigits(SubSeq(s, 12, 13)) /\ ToInt(SubSeq(s, 12, 13)) < 24
    /\ AllDigits(SubSeq(s, 15, 16)) /\ ToInt(SubSeq(s, 15, 16)) < 60
    /\ AllDigits(SubSeq(s, 18, 19)) /\ ToInt(SubSeq(s, 18, 19)) < 60

\* a date or datetime string as a datetime, None when it is neither: the
\* outcome of str.to_datetime(strict=False) and of pd.to_datetime on the
\* strings of the model
as_datetime(s) ==
    IF s = NULL THEN NULL
    ELSE IF IsISODate(s) THEN s \o <<" ","0","0",":","0","0",":","0","0">>
    ELSE IF IsISODateTime(s) THEN s
    ELSE NULL

\* lines 71-74
date_expr(columns, row) ==
    LET date_col == resolve_column(columns, COLUMN_MAP("order_date"))
    IN  IF date_col = NULL THEN NULL ELSE as_datetime(row[date_col])

\* lines 97-101
state_expr(columns, row) ==
    LET state_col == resolve_column(columns, COLUMN_MAP("state"))
    IN  IF state_col = NULL THEN <<"U","N","K","N","O","W","N">> ELSE strip_upper(row[state_col])

\* lines 104-108
courier_expr(columns, row) ==
    LET courier_col == resolve_column(columns, COLUMN_MAP("courier"))
    IN  IF courier_col = NULL THEN <<"U","N","K","N","O","W","N">> ELSE strip_upper(row[courier_col])

\* lines 111-115
ndr_desc_expr(columns, row) ==
    LET ndr_desc_col == resolve_column(columns, COLUMN_MAP("ndr_description"))
    IN  IF ndr_desc_col = NULL THEN <<"U","n","k","n","o","w","n">>
        ELSE IF row[ndr_desc_col] = NULL THEN NULL
        ELSE Strip(Str(row[ndr_desc_col]))

\* the ordering of two datetimes: by day, then by second of the day
DayKey(dt) == (YearOf(dt) * 12 + MonthOf(dt)) * 31 + DayOf(dt)

SecondKey(dt) ==
    ToInt(SubSeq(dt, 12, 13)) * 3600 + ToInt(SubSeq(dt, 15, 16)) * 60
    + ToInt(SubSeq(dt, 18, 19))

DateTimeLE(a, b) ==
    \/ DayKey(a) < DayKey(b)
    \/ DayKey(a) = DayKey(b) /\ SecondKey(a) <= SecondKey(b)

RECURSIVE DayOfYear(_, _, _)
DayOfYear(year, month, day) ==
    IF month = 1 THEN day
    ELSE DaysInMonth(year, month - 1) + DayOfYear(year, month - 1, day)

\* Monday = 1 .. Sunday = 7
Weekday(year, month, day) ==
    LET y == year - 1
        n == 365 * y + (y \div 4) - (y \div 100) + (y \div 400)
             + DayOfYear(year, month, day)
    IN  ((n - 1) % 7) + 1

WeeksInYear(year) ==
    IF Weekday(year, 1, 1) = 4 \/ (IsLeap(year) /\ Weekday(year, 1, 1) = 3)
    THEN 53 ELSE 52

\* dt.week(): the ISO week number
iso_week(dt) ==
    LET year == YearOf(dt)
        w == (DayOfYear(year, MonthOf(dt), DayOf(dt))
              - Weekday(year, MonthOf(dt), DayOf(dt)) + 10) \div 7
    IN  IF w < 1 THEN WeeksInYear(year - 1)
        ELSE IF w > WeeksInYear(year) THEN 1
        ELSE w

\* line 130
week_expr(order_date) == IF order_date = NULL THEN NULL ELSE IntToStr(iso_week(order_date))

\* a Polars boolean of a comparison whose operand may be null
NullableBool(cell, b) == IF cell = NULL THEN NULL ELSE PyBool(b)

\* cast(pl.Boolean).fill_null(False) of a flag column
flag_or_false(columns, row, flag) ==
    IF flag \in columns THEN (IF row[flag] = PyTrue THEN PyTrue ELSE PyFalse)
    ELSE PyFalse

\* lines 46-145: the columns normalize_dataframe_pl adds to one row (the
\* pickup, OFD, AWB and approval dates and the TAT columns are not carried)
normalize_row(columns, row) ==
    LET status == status_expr(columns, row)
        order_date == date_expr(columns, row)
    IN  Col(<<"_","s","t","a","t","u","s">>, status)
        @@ Col(<<"_","p","a","y","m","e","n","t">>, payment_expr(columns, row))
        @@ Col(<<"_","o","r","d","e","r","_","v","a","l","u","e">>, order_value_expr(columns, row))
        @@ Col(<<"_","o","r","d","e","r","_","d","a","t","e">>, order_date)
        @@ Col(<<"_","s","t","a","t","e">>, state_expr(columns, row))
        @@ Col(<<"_","c","o","u","r","i","e","r">>, courier_expr(columns, row))
        @@ Col(<<"_","n","d","r","_","d","e","s","c","r","i","p","t","i","o","n">>, ndr_desc_expr(columns, row))
        @@ Col(<<"_","o","r","d","e","r","_","w","e","e","k">>, week_expr(order_date))
        @@ Col(<<"_","i","s","_","c","a","n","c","e","l","l","e","d">>,
               IF <<"c","a","n","c","e","l","l","e","d","_","f","l","a","g">> \in columns
               THEN flag_or_false(columns, row, <<"c","a","n","c","e","l","l","e","d","_","f","l","a","g">>)
               ELSE NullableBool(status, Contains(Str(status), <<"C","A","N","C","E","L">>)))
        @@ Col(<<"_","i","s","_","d","e","l","i","v","e","r","e","d">>, NullableBool(status, status = <<"D","E","L","I","V","E","R","E","D">>))
        @@ Col(<<"_","i","s","_","r","t","o">>, NullableBool(status, Contains(Str(status), <<"R","T","O">>)))
        @@ Col(<<"_","i","s","_","n","d","r">>, flag_or_false(columns, row, <<"n","d","r","_","f","l","a","g">>))
        @@ row

NormalizedColumns ==
    { <<"_","s","t","a","t","u","s">>, <<"_","p","a","y","m","e","n","t">>, <<"_","o","r","d","e","r","_","v","a","l","u","e">>, <<"_","o","r","d","e","r","_","d","a","t","e">>, <<"_","s","t","a","t","e">>,
      <<"_","c","o","u","r","i","e","r">>, <<"_","n","d","r","_","d","e","s","c","r","i","p","t","i","o","n">>, <<"_","o","r","d","e","r","_","w","e","e","k">>, <<"_","i","s","_","c","a","n","c","e","l","l","e","d">>,
      <<"_","i","s","_","d","e","l","i","v","e","r","e","d">>, <<"_","i","s","_","r","t","o">>, <<"_","i","s","_","n","d","r">> }

normalize_dataframe_pl(df) ==
    Table(df.columns \cup NormalizedColumns,
          [i \in DOMAIN df.rows |-> normalize_row(df.columns, df.rows[i])])

\* ------------------------------------------------------------------------
\* analytics.filter_shipping_data_pl
\*
\* A FilterSpec maps filter keys to values; a value is [list, v]: a list v
\* of str when list is TRUE, and a single str (or None), held as the one
\* element of v, when it is FALSE.
\* ------------------------------------------------------------------------

Single(v) == [list |-> FALSE, v |-> <<v>>]
List(vs) == [list |-> TRUE, v |-> vs]

\* the str of a single-valued filter key
single_value(filters, key) == filters[key].v[1]

\* bool(filters.get(key))
filter_given(filters, key) ==
    /\ key \in DOMAIN filters
    /\ IF filters[key].list THEN filters[key].v # <<>>
       ELSE Truthy(single_value(filters, key))

\* filters.get(key) and filters[key] != "All" and filters[key] != []
filter_active(filters, key) ==
    /\ filter_given(filters, key)
    /\ ~(~filters[key].list /\ single_value(filters, key) = <<"A","l","l">>)

\* [str(x).upper() for x in val]
upper_all(val) == [i \in DOMAIN val |-> Upper(Str(val[i]))]

\* the rows whose order date is not before start; a null never compares true
keep_from(rows, start) ==
    SelectSeq(rows, LAMBDA r :
        /\ r[<<"_","o","r","d","e","r","_","d","a","t","e">>] # NULL
        /\ DateTimeLE(start, r[<<"_","o","r","d","e","r","_","d","a","t","e">>]))

\* the rows whose order date is not after end
keep_until(rows, end) ==
    SelectSeq(rows, LAMBDA r :
        /\ r[<<"_","o","r","d","e","r","_","d","a","t","e">>] # NULL
        /\ DateTimeLE(r[<<"_","o","r","d","e","r","_","d","a","t","e">>], end))

\* A variant of keep_is_in that builds the OR of the list by concatenating
\* the matches of each element
RECURSIVE keep_is_in_concat(_, _, _)
keep_is_in_concat(rows, col, values) ==
    IF values = <<>> THEN <<>>
    ELSE SelectSeq(rows, LAMBDA r : r[col] # NULL /\ r[col] = Head(values))
         \o keep_is_in_concat(rows, col, Tail(values))

\* A variant of keep_is_in in which only the first element of the list counts
keep_is_in_first(rows, col, values) ==
    SelectSeq(rows, LAMBDA r : r[col] # NULL /\ r[col] = Head(values))

\* lf.filter(pl.col(col).is_in(values))
keep_is_in(rows, col, values) ==
    SelectSeq(rows, LAMBDA r : r[col] # NULL /\ r[col] \in Range(values))

\* lf.filter(pl.col(col).str.to_uppercase().is_in(values))
keep_upper_is_in(rows, col, values) ==
    SelectSeq(rows, LAMBDA r : r[col] # NULL /\ Upper(r[col]) \in Range(values))

\* lf.filter(pl.col(col) == value)
keep_eq(rows, col, value) ==
    SelectSeq(rows, LAMBDA r : r[col] # NULL /\ r[col] = value)

\* lines 154-158
filter_dates(rows, filters) ==
    LET from_start ==
            IF filter_given(filters, "startDate")
            THEN keep_from(rows, as_datetime(single_value(filters, "startDate")))
            ELSE rows
    IN  IF filter_given(filters, "endDate")
        THEN keep_until(from_start, as_datetime(single_value(filters, "endDate")))
        ELSE from_start

\* lines 161-171
filter_order_status(rows, filters) ==
    IF ~filter_active(filters, "orderStatus") THEN rows
    ELSE IF filters["orderStatus"].list
         THEN keep_upper_is_in(rows, <<"_","s","t","a","t","u","s">>, upper_all(filters["orderStatus"].v))
         ELSE keep_eq(rows, <<"_","s","t","a","t","u","s">>, Upper(Str(single_value(filters, "orderStatus"))))

\* lines 174-180, 194-201 and 204-210: payment, state and courier compare the
\* normalized column with the upper-cased filter value
filter_upper(rows, filters, key, col) ==
    IF ~filter_active(filters, key) THEN rows
    ELSE IF filters[key].list
         THEN keep_is_in(rows, col, upper_all(filters[key].v))
         ELSE keep_eq(rows, col, Upper(Str(single_value(filters, key))))

\* lines 183-191, 213-221 and 224-232: channel, sku and product compare the
\* resolved source column with the filter value as given, and do nothing
\* when no source column resolves
filter_resolved(rows, columns, filters, key, field) ==
    LET col == resolve_column(columns, COLUMN_MAP(field))
    IN  IF ~filter_active(filters, key) \/ col = NULL THEN rows
        ELSE IF filters[key].list
             THEN keep_is_in(rows, col, filters[key].v)
             ELSE keep_eq(rows, col, single_value(filters, key))

\* lines 235-241
filter_ndr_description(rows, filters) ==
    IF ~filter_active(filters, "ndrDescription") THEN rows
    ELSE IF filters["ndrDescription"].list
         THEN keep_is_in(rows, <<"_","n","d","r","_","d","e","s","c","r","i","p","t","i","o","n">>, filters["ndrDescription"].v)
         ELSE keep_eq(rows, <<"_","n","d","r","_","d","e","s","c","r","i","p","t","i","o","n">>, single_value(filters, "ndrDescription"))

filter_shipping_data_pl(lf, filters) ==
    LET by_date == filter_dates(lf.rows, filters)
        by_status == filter_order_status(by_date, filters)
        by_payment == filter_upper(by_status, filters, "paymentMethod", <<"_","p","a","y","m","e","n","t">>)
        by_channel == filter_resolved(by_payment, lf.columns, filters, "channel", "channel")
        by_state == filter_upper(by_channel, filters, "state", <<"_","s","t","a","t","e">>)
        by_courier == filter_upper(by_state, filters, "courier", <<"_","c","o","u","r","i","e","r">>)
        by_sku == filter_resolved(by_courier, lf.columns, filters, "sku", "sku")
        by_product == filter_resolved(by_sku, lf.columns, filters, "productName", "product")
    IN  Table(lf.columns, filter_ndr_description(by_product, filters))

\* ------------------------------------------------------------------------
\* analytics: the aggregates
\* ------------------------------------------------------------------------

\* the outcome of a call: an exception with its text, or the value returned
Raised(text) == [raised |-> TRUE, value |-> text]
Returned(value) == [raised |-> FALSE, value |-> value]

RECURSIVE GCD(_, _)
GCD(a, b) == IF b = 0 THEN a ELSE GCD(b, a % b)

\* a float, kept as a reduced fraction
Float(num, den) ==
    LET g == GCD(num, den) IN [num |-> num \div g, den |-> den \div g]

FloatLess(a, b) == a.num * b.den < b.num * a.den

\* n / total * 100
Percent(n, total) == Float(n * 100, total)

\* the first of the columns an expression reads that the frame lacks, None
\* when it has them all: the column a ColumnNotFoundError or KeyError names
first_missing(columns, needed) ==
    LET missing == SelectSeq(needed, LAMBDA c : c \notin columns)
    IN  IF missing = <<>> THEN NULL ELSE Head(missing)

\* sum() of a Boolean column: the number of True cells, nulls skipped
sum_bool(rows, col) == Cardinality({i \in DOMAIN rows : rows[i][col] = PyTrue})

\* sum() of a numeric column, nulls skipped
RECURSIVE sum_value(_, _)
sum_value(rows, col) ==
    IF rows = <<>> THEN 0
    ELSE (IF Head(rows)[col] = NULL THEN 0 ELSE ToInt(Head(rows)[col]))
         + sum_value(Tail(rows), col)

\* line 259: pl.col("_order_value").filter(pl.col("_is_delivered")).sum(); a
\* null flag does not select its row
total_gmv_of_all_rows(rows) == sum_value(rows, <<"_","o","r","d","e","r","_","v","a","l","u","e">>)

total_gmv(rows) ==
    sum_value(SelectSeq(rows, LAMBDA r : r[<<"_","i","s","_","d","e","l","i","v","e","r","e","d">>] = PyTrue), <<"_","o","r","d","e","r","_","v","a","l","u","e">>)

\* lines 254-266: the record of a frame that has rows
summary_record(df) ==
    LET missing == first_missing(df.columns,
                       << <<"_","i","s","_","d","e","l","i","v","e","r","e","d">>, <<"_","i","s","_","n","d","r">>, <<"_","i","s","_","r","t","o">>, <<"_","o","r","d","e","r","_","v","a","l","u","e">> >>)
        total == Len(df.rows)
        total_delivered == sum_bool(df.rows, <<"_","i","s","_","d","e","l","i","v","e","r","e","d">>)
        total_rto == sum_bool(df.rows, <<"_","i","s","_","r","t","o">>)
    IN  IF missing # NULL THEN Raised(missing)
        ELSE Returned(
               [total_orders |-> total,
                total_delivered |-> total_delivered,
                total_ndr |-> sum_bool(df.rows, <<"_","i","s","_","n","d","r">>),
                total_rto |-> total_rto,
                total_gmv |-> total_gmv(df.rows),
                delivery_rate |-> Percent(total_delivered, total),
                rto_rate |-> Percent(total_rto, total)])

\* A variant without the early return of lines 251-252 and without the
\* `if total` guards of lines 263-264: on a frame of no rows the rates divide
\* by zero
compute_summary_metrics_pl_unguarded(df) ==
    IF Len(df.rows) = 0 THEN Raised(<<"d","i","v","i","s","i","o","n"," ","b","y"," ","z","e","r","o">>) ELSE summary_record(df)

\* lines 249-266
compute_summary_metrics_pl(df) ==
    IF Len(df.rows) = 0
    THEN Returned([total_orders |-> 0, total_gmv |-> 0,
                   delivery_rate |-> Float(0, 1), rto_rate |-> Float(0, 1)])
    ELSE summary_record(df)

\* all orders in which the elements of a set can be listed
Orderings(S) ==
    {s \in [1..Cardinality(S) -> S] : \A i, j \in DOMAIN s : i # j => s[i] # s[j]}

\* the group limit of head(10)
TopN == 10

\* A variant of the sort that leaves the groups in the order group_by gave
any_group(groups) == groups

\* the groups that sort(order_share, descending=True) can put first
greatest_share(groups) ==
    {g \in groups : \A h \in groups : ~FloatLess(g.order_share, h.order_share)}

\* sort(...).head(n): the listings of up to n groups in non-increasing share
RECURSIVE sorted_head(_, _)
sorted_head(groups, n) ==
    IF groups = {} \/ n = 0 THEN {<<>>}
    ELSE UNION { UNION { {<<g>> \o rest : rest \in sorted_head(others, n - 1)} :
                             others \in {groups \ {g}} } :
                     g \in greatest_share(groups) }

\* lines 284-295 and 315-326: group_by(col), the two counts, the share, the
\* sort on the share and head(10).  group_by yields its groups in no fixed
\* order and the sort leaves groups of equal share in the order it found
\* them, so every listing with non-increasing share is a possible value.
top_10_groups(df, col, key) ==
    LET total_orders_overall == Len(df.rows)
        group(k) ==
            LET members == SelectSeq(df.rows, LAMBDA r : r[col] = k)
            IN  (key :> k)
                @@ [total_orders |-> Len(members),
                    total_delivered |-> sum_bool(members, <<"_","i","s","_","d","e","l","i","v","e","r","e","d">>),
                    order_share |-> Percent(Len(members), total_orders_overall)]
    IN  UNION { sorted_head(groups, TopN) :
                    groups \in {{group(k) : k \in {df.rows[i][col] : i \in DOMAIN df.rows}}} }

\* lines 268-297: the possible outcomes
compute_top_10_states_pl(df) ==
    LET missing == first_missing(df.columns, << <<"_","s","t","a","t","e">>, <<"_","i","s","_","d","e","l","i","v","e","r","e","d">> >>)
    IN  IF Len(df.rows) = 0 THEN {Returned(<<>>)}
        ELSE IF missing # NULL THEN {Raised(missing)}
        ELSE {Returned(listing) : listing \in top_10_groups(df, <<"_","s","t","a","t","e">>, "_state")}

\* lines 299-328: the possible outcomes
compute_top_10_couriers_pl(df) ==
    LET missing == first_missing(df.columns, << <<"_","c","o","u","r","i","e","r">>, <<"_","i","s","_","d","e","l","i","v","e","r","e","d">> >>)
    IN  IF Len(df.rows) = 0 THEN {Returned(<<>>)}
        ELSE IF missing # NULL THEN {Raised(missing)}
        ELSE {Returned(listing) : listing \in top_10_groups(df, <<"_","c","o","u","r","i","e","r">>, "_courier")}

\* the order of two str
RECURSIVE LexLess(_, _)
LexLess(a, b) ==
    IF a = <<>> THEN b # <<>>
    ELSE IF b = <<>> THEN FALSE
    ELSE IF Head(a) = Head(b) THEN LexLess(Tail(a), Tail(b))
    ELSE IndexOf(Head(a), Digits) < IndexOf(Head(b), Digits)

\* the order of the group keys of groupby(dropna=False): ascending, the
\* null key last
WeekBefore(a, b) == a # NULL /\ (b = NULL \/ LexLess(a, b))

\* lines 335-351: a record a week of the frame, the null week under the key
\* nan.  The sums skip null cells.
compute_weekly_summary_pd(df) ==
    LET missing == first_missing(df.columns,
                       << <<"_","o","r","d","e","r","_","w","e","e","k">>, <<"_","s","t","a","t","u","s">>, <<"_","i","s","_","d","e","l","i","v","e","r","e","d">>,
                          <<"_","i","s","_","n","d","r">>, <<"_","i","s","_","r","t","o">>, <<"_","o","r","d","e","r","_","v","a","l","u","e">> >>)
        weeks == {df.rows[i][<<"_","o","r","d","e","r","_","w","e","e","k">>] : i \in DOMAIN df.rows}
        order == CHOOSE s \in Orderings(weeks) :
                     \A i, j \in DOMAIN s : i < j => WeekBefore(s[i], s[j])
        record(week) ==
            LET members == SelectSeq(df.rows, LAMBDA r : r[<<"_","o","r","d","e","r","_","w","e","e","k">>] = week)
            IN  ("_order_week" :> (IF week = NULL THEN NaN ELSE week))
                @@ ("_is_delivered" :> sum_bool(members, <<"_","i","s","_","d","e","l","i","v","e","r","e","d">>))
                @@ ("_is_ndr" :> sum_bool(members, <<"_","i","s","_","n","d","r">>))
                @@ ("_is_rto" :> sum_bool(members, <<"_","i","s","_","r","t","o">>))
                @@ ("_order_value" :> sum_value(members, <<"_","o","r","d","e","r","_","v","a","l","u","e">>))
                @@ [total_orders |-> Len(members)]
    IN  IF missing # NULL THEN Raised(missing)
        ELSE Returned([i \in DOMAIN order |-> record(order[i])])

\* ------------------------------------------------------------------------
\* analytics: compute_all_analytics
\* ------------------------------------------------------------------------

\* lines 362-369: the aggregates in the order of the dict
ANALYTICS_MAP ==
    << "summary-metrics", "weekly-summary", "top-10-states", "top-10-couriers" >>

\* lines 464-470 on a cell: a float nan becomes None
clean_for_json_cell(x) == IF x = NaN THEN NULL ELSE x

\* line 410, clean_for_json on the value of an aggregate.  Only the week key
\* of the weekly records can hold a nan; the ints, fractions, str and None of
\* the other values are returned as they are.
clean_result(a_type, value) ==
    IF a_type = "weekly-summary"
    THEN [i \in DOMAIN value |->
            [value[i] EXCEPT !["_order_week"] = clean_for_json_cell(@)]]
    ELSE value

\* line 442, clean_for_json on the final payload: the results are clean
\* already, and the bool of "success" is an int to line 464, which returns
\* int(True)
clean_payload(final) == [final EXCEPT !["success"] = IF @ THEN 1 ELSE 0]

\* A Python object by its type, with the text str() gives for a scalar in v
\* and the entries of a dict or of a list in items; an entry of a list has
\* the key None.
PyObject(t, v, items) == [t |-> t, v |-> v, items |-> items]
NoneObject == PyObject("NoneType", NULL, <<>>)
BoolObject(v) == PyObject("bool", v, <<>>)
IntObject(v) == PyObject("int", v, <<>>)
FloatObject(v) == PyObject("float", v, <<>>)
StrObject(v) == PyObject("str", v, <<>>)
DictObject(items) == PyObject("dict", <<>>, items)
ListObject(items) == PyObject("list", <<>>, items)
Item(key, val) == [key |-> key, val |-> val]

\* int(obj) of a bool or an int
int_of(obj) ==
    IF obj.t = "bool"
    THEN IntObject(IF obj.v = PyTrue THEN <<"1">> ELSE <<"0">>)
    ELSE IntObject(obj.v)

\* pd.isna(obj) or np.isinf(obj) of a float
isna_or_isinf(obj) == obj.v \in {NaN, <<"i","n","f">>, <<"-","i","n","f">>}

\* lines 445-486 on an object of the builtin types, the tests in the order
\* of the code: a bool is an instance of int, so that line 464 takes it
\* before any later test
RECURSIVE clean_for_json(_)
clean_for_json(obj) ==
    IF obj.t = "NoneType" THEN NoneObject
    ELSE IF obj.t \in {"bool", "int"} THEN int_of(obj)
    ELSE IF obj.t = "float"
    THEN IF isna_or_isinf(obj) THEN NoneObject ELSE obj
    ELSE IF obj.t = "dict"
    THEN DictObject([i \in DOMAIN obj.items |->
                    Item(StrObject(obj.items[i].key.v),
                         clean_for_json(obj.items[i].val))])
    ELSE IF obj.t = "list"
    THEN ListObject([i \in DOMAIN obj.items |->
                    Item(NoneObject, clean_for_json(obj.items[i].val))])
    ELSE obj

\* lines 382-391: a Polars frame that has a _status column is taken as
\* normalized, any other input is normalized
normalized_input(input) ==
    IF input.polars /\ <<"_","s","t","a","t","u","s">> \in input.df.columns
    THEN input.df
    ELSE normalize_dataframe_pl(input.df)

\* results.get(key, default)
results_get(results, key, default) ==
    IF key \in DOMAIN results THEN results[key] ELSE default

\* lines 430-439 (raw_shipping, the records of the frame, is not carried)
final_payload(results, errors) ==
    ("success" :> TRUE)
    @@ ("summary_metrics" :> results_get(results, "summary-metrics", <<>>))
    @@ ("weekly_summary" :> results_get(results, "weekly-summary", <<>>))
    @@ ("average_order_tat" :> results_get(results, "average-order-tat", <<>>))
    @@ ("top-10-states" :> results_get(results, "top-10-states", <<>>))
    @@ ("top-10-couriers" :> results_get(results, "top-10-couriers", <<>>))
    @@ ("errors" :> errors)

\* lines 396-413: the loop over ANALYTICS_MAP with the outcome of each call
\* given; n is the number of aggregates the loop gets to
loop_payload(outcome, n) ==
    LET reached == {ANALYTICS_MAP[i] : i \in 1..n}
        results == [a \in {a \in reached : ~outcome[a].raised} |->
                       clean_result(a, outcome[a].value)]
        errors == [a \in {a \in reached : outcome[a].raised} |-> outcome[a].value]
    IN  clean_payload(final_payload(results, errors))

\* the outcomes the four aggregates can have on a frame
analytics_outcomes(df) ==
    { ("summary-metrics" :> compute_summary_metrics_pl(df))
      @@ ("weekly-summary" :> compute_weekly_summary_pd(df))
      @@ ("top-10-states" :> states)
      @@ ("top-10-couriers" :> couriers) :
          states \in compute_top_10_states_pl(df),
          couriers \in compute_top_10_couriers_pl(df) }

\* A variant of compute_all_analytics whose loop ends at the first aggregate
\* that raises
compute_all_analytics_stop_at_error(input, session_id) ==
    LET first_error(outcome) ==
            LET raised == {i \in DOMAIN ANALYTICS_MAP : outcome[ANALYTICS_MAP[i]].raised}
            IN  IF raised = {} THEN Len(ANALYTICS_MAP) ELSE Min(raised)
    IN  { loop_payload(outcome, first_error(outcome)) :
            outcome \in analytics_outcomes(normalized_input(input)) }

\* lines 371-442: the payloads a call can return
compute_all_analytics(input, session_id) ==
    { loop_payload(outcome, Len(ANALYTICS_MAP)) :
        outcome \in analytics_outcomes(normalized_input(input)) }

\* ------------------------------------------------------------------------
\* main: the compute route
\* ------------------------------------------------------------------------

Http(status, body) == [done |-> TRUE, status |-> status, body |-> body]

\* the rows stored for a session, falsy when the session has none
has_shipping_data(store, session_id) ==
    session_id \in DOMAIN store /\ store[session_id].rows # <<>>

\* the call compute_all_analytics(*args): the function takes two positional
\* arguments, a call with any other number raises TypeError
call_compute_all_analytics(args) ==
    IF Len(args) # 2
    THEN {Raised(<<"c","o","m","p","u","t","e","_","a","l","l","_","a","n","a","l","y","t","i","c","s","(",")"," ","t","a","k","e","s"," ","2"," ","p","o","s","i","t","i","o","n","a","l"," ","a","r","g","u","m","e","n","t","s">>)}
    ELSE {Returned(result) : result \in compute_all_analytics(args[1], args[2])}

\* lines 59-95: the responses the handler can give
compute_analytics(req, store) ==
    IF ~Truthy(req.sessionId)
    THEN {Http(400, [detail |-> <<"S","e","s","s","i","o","n"," ","I","D"," ","i","s"," ","r","e","q","u","i","r","e","d">>])}
    ELSE IF ~has_shipping_data(store, req.sessionId)
    THEN {Http(404, [detail |-> <<"N","o"," ","d","a","t","a"," ","f","o","u","n","d"," ","f","o","r"," ","s","e","s","s","i","o","n">>])}
    ELSE { IF call.raised
           THEN Http(500, [detail |-> call.value])
           ELSE IF call.value["success"] = 0
           THEN Http(500, [detail |-> <<"F","a","i","l","e","d"," ","t","o"," ","c","o","m","p","u","t","e"," ","a","n","a","l","y","t","i","c","s">>])
           ELSE Http(200, [success |-> TRUE,
                           message |-> <<"A","n","a","l","y","t","i","c","s"," ","c","o","m","p","u","t","e","d"," ","s","u","c","c","e","s","s","f","u","l","l","y">>,
                           sessionId |-> req.sessionId]) :
             call \in call_compute_all_analytics(
                         << [polars |-> FALSE, df |-> store[req.sessionId]],
                            req.filters, req.sessionId >>) }

\* ------------------------------------------------------------------------
\* State
\* ------------------------------------------------------------------------

VARIABLES
    gds_row,    \* the row handed to get_delivery_status
    gds_out,    \* its return value, NULL before the call
    raw_df,     \* the raw table handed to preprocess_shipping_data
    pre_out,    \* the outcome of the call, with done = FALSE before the call
    pre_again,  \* the outcome of a second call on the table of the first
    pl_df,      \* the Polars frame handed to normalize_dataframe_pl
    lf,         \* the normalized frame, with done = FALSE before the call
    filters,    \* the FilterSpec handed to filter_shipping_data_pl
    filtered,   \* the frame it returns, with done = FALSE before the call
    compute_in, \* the frame of the session, handed to compute_all_analytics
    payload,    \* the payload it returns, with done = FALSE before the call
    request,    \* the request handed to the compute route
    response,   \* its response, with done = FALSE before the request
    top_in,     \* the normalized frame handed to a top-10 aggregate
    top_out,    \* the aggregate called and its outcome, done = FALSE before
    json_in,    \* the object handed to clean_for_json
    json_out,   \* the object it returns, with done = FALSE before the call
    week_in,    \* the date handed to get_order_week
    week_out,   \* the week it returns, with done = FALSE before the call
    tat_row,    \* the dates of the row a turnaround time is computed of
    tat_out,    \* the field computed and its value, done = FALSE before
    resolve_in,  \* the column list and the alias list handed to resolve_column
    resolve_out, \* the column it returns, with done = FALSE before the call
    rq_jobs,     \* Redis: the job hash of each session that has one
    rq_queue,    \* Redis: the list of queued job ids
    rq_call,     \* each caller's position in enqueue_analytics_computation
    rq_work,     \* the session whose job each worker runs, "" when it runs none
    users,       \* MongoDB: the documents of the users collection, in natural order
    admin_call,  \* each caller's position in create_admin_user
    admin_done,  \* the arguments of the calls that have returned
    store_disk,  \* the Parquet file of each session in the cache directory
    store_redis, \* Redis: the session hash of each session and its time to live
    store_call   \* the position of the call of store_dataframe_as_parquet

computeVars == <<compute_in, payload, request, response>>

topVars == <<top_in, top_out>>

jsonVars == <<json_in, json_out>>

weekVars == <<week_in, week_out>>

\* the variables of the specifications of the single functions
tatVars == <<tat_row, tat_out>>

resolveVars == <<resolve_in, resolve_out>>

rqVars == <<rq_jobs, rq_queue, rq_call, rq_work>>

adminVars == <<users, admin_call, admin_done>>

storeVars == <<store_disk, store_redis, store_call>>

extVars == <<weekVars, tatVars, resolveVars, rqVars, adminVars, storeVars>>

vars == <<gds_row, gds_out, raw_df, pre_out, pre_again, pl_df, lf, filters, filtered, computeVars, topVars, jsonVars, extVars>>

NoRow == [c \in {} |-> NULL]
NoTable == Table({}, <<>>)
NotRun == [done |-> FALSE, df |-> NoTable]

\* the variables a specification does not use keep these values
IdleStatus == gds_row = NoRow /\ gds_out = NULL
NotPreprocessed == [done |-> FALSE, at |-> 0] @@ PreReturned(NoTable, {})
IdlePre == raw_df = NoTable /\ pre_out = NotPreprocessed /\ pre_again = NotPreprocessed
NoFilters == [k \in {} |-> Single(NULL)]
IdleFilter == pl_df = NoTable /\ lf = NotRun /\ filters = NoFilters /\ filtered = NotRun
NoInput == [polars |-> FALSE, df |-> NoTable]
NoPayload == [done |-> FALSE, value |-> <<>>]
NoRequest == [sessionId |-> <<>>, filters |-> NoFilters]
NoResponse == [done |-> FALSE, status |-> 0, body |-> <<>>]
IdleCompute ==
    compute_in = NoInput /\ payload = NoPayload /\ request = NoRequest
    /\ response = NoResponse
NoTop == [done |-> FALSE, aggregate |-> "", raised |-> FALSE, value |-> <<>>]
IdleTop == top_in = NoTable /\ top_out = NoTop
NotCleaned == [done |-> FALSE, value |-> NoneObject]
IdleJson == json_in = NoneObject /\ json_out = NotCleaned
NoWeek == [done |-> FALSE, value |-> NULL]
IdleWeek == week_in = NULL /\ week_out = NoWeek
NoTat == [done |-> FALSE, field |-> "", null |-> TRUE, num |-> 0, den |-> 1]
IdleTat == tat_row = NoRow /\ tat_out = NoTat
NoResolve == [df_columns |-> <<>>, keys |-> <<>>]
NotResolved == [done |-> FALSE, value |-> NULL]
IdleResolve == resolve_in = NoResolve /\ resolve_out = NotResolved
NoJobs == [s \in {} |-> ""]
IdleRq == rq_jobs = NoJobs /\ rq_queue = <<>> /\ rq_call = <<>> /\ rq_work = <<>>
IdleAdmin == users = <<>> /\ admin_call = <<>> /\ admin_done = {}
IdleStore == store_disk = <<>> /\ store_redis = <<>> /\ store_call = <<>>
IdleExt == IdleWeek /\ IdleTat /\ IdleResolve /\ IdleRq /\ IdleAdmin /\ IdleStore
IdleCore ==
    /\ IdleStatus
    /\ IdlePre
    /\ IdleFilter
    /\ IdleCompute
    /\ IdleTop
    /\ IdleJson

coreVars ==
    <<gds_row, gds_out, raw_df, pre_out, pre_again, pl_df, lf, filters, filtered,
      computeVars, topVars, jsonVars>>

\* all lists of 1..n elements of S
SeqsUpTo(S, n) == UNION {[1..k -> S] : k \in 1..n}

\* ------------------------------------------------------------------------
\* SpecStatus: get_delivery_status applied to one row
\* ------------------------------------------------------------------------

ADate == <<"2","0","2","5","-","0","2","-","0","3">>

\* raw status cells as they stand after standardize_missing_values
StatusValues ==
    { NULL, <<"d","e","l","i","v","e","r","e","d">>, <<"D","E","L","I","V","E","R","E","D">>, <<"D","e","l","i","v","e","r","e","d"," ">>, <<"N","D","R">>, <<"S","H","I","P","P","E","D">>,
      <<"P","E","N","D","I","N","G">>, <<"N","E","W">>, <<"c","a","n","c","e","l","e","d">>, <<"L","o","s","t">>, <<"i","n","_","t","r","a","n","s","i","t">>,
      <<"I","n"," ","T","r","a","n","s","i","t">>, <<"R","T","O","_","D","E","L","I","V","E","R","E","D">>, <<"r","t","o","-","i","n","i","t","i","a","t","e","d">>, <<"R","T","O">>,
      <<"O","u","t"," ","F","o","r"," ","D","e","l","i","v","e","r","y">>, <<"P","I","C","K","E","D","-","U","P">>, <<"U","n","d","e","l","i","v","e","r","e","d","-","1","s","t"," ","A","t","t","e","m","p","t">>,
      <<"S","h","i","p","m","e","n","t"," ","B","o","o","k","e","d">> }

StatusKeys == { <<"s","t","a","t","u","s">>, <<"c","u","r","r","e","n","t","_","s","t","a","t","u","s">> }

\* the date columns of a row: delivered, NDR, RTO, RTO delivered, OFD
DateConfigs ==
    [ dd : {NULL, NaN, ADate}, nd : {NULL, ADate}, rd : {NULL, ADate},
      rdd : {NULL, ADate}, od : {NULL, ADate} ]

StatusRow(sk, sv, d) ==
    [ k \in { sk, <<"o","r","d","e","r","_","d","e","l","i","v","e","r","e","d","_","d","a","t","e">>, <<"n","d","r","_","d","a","t","e">>, <<"r","t","o","_","d","a","t","e">>,
              <<"r","t","o","_","d","e","l","i","v","e","r","e","d","_","d","a","t","e">>, <<"l","a","t","e","s","t","_","o","_","f","_","d","_","_","d","a","t","e">> } |->
        IF k = sk THEN sv
        ELSE IF k = <<"o","r","d","e","r","_","d","e","l","i","v","e","r","e","d","_","d","a","t","e">> THEN d.dd
        ELSE IF k = <<"n","d","r","_","d","a","t","e">> THEN d.nd
        ELSE IF k = <<"r","t","o","_","d","a","t","e">> THEN d.rd
        ELSE IF k = <<"r","t","o","_","d","e","l","i","v","e","r","e","d","_","d","a","t","e">> THEN d.rdd
        ELSE d.od ]

StatusRows ==
    { StatusRow(sk, sv, d) : sk \in StatusKeys, sv \in StatusValues, d \in DateConfigs }

\* the same row with other values in its date columns
WithDates(row, d) ==
    [ k \in DOMAIN row |->
        IF k = <<"o","r","d","e","r","_","d","e","l","i","v","e","r","e","d","_","d","a","t","e">> THEN d.dd
        ELSE IF k = <<"n","d","r","_","d","a","t","e">> THEN d.nd
        ELSE IF k = <<"r","t","o","_","d","a","t","e">> THEN d.rd
        ELSE IF k = <<"r","t","o","_","d","e","l","i","v","e","r","e","d","_","d","a","t","e">> THEN d.rdd
        ELSE IF k = <<"l","a","t","e","s","t","_","o","_","f","_","d","_","_","d","a","t","e">> THEN d.od
        ELSE row[k] ]

InitStatus ==
    /\ gds_row \in StatusRows
    /\ gds_out = NULL
    /\ IdlePre
    /\ IdleFilter
    /\ IdleCompute
    /\ IdleTop
    /\ IdleJson
    /\ IdleExt

Classify ==
    /\ gds_row # NoRow
    /\ gds_out = NULL
    /\ gds_out' = get_delivery_status(gds_row)
    /\ UNCHANGED <<gds_row, raw_df, pre_out, pre_again, pl_df, lf, filters, filtered, computeVars, topVars, jsonVars, extVars>>

NextStatus == Classify

SpecStatus == InitStatus /\ [][NextStatus]_vars

\* ------------------------------------------------------------------------
\* SpecPre: preprocess_shipping_data applied to one raw table
\* ------------------------------------------------------------------------

MaxRows == 2
MaxClock == 2

\* the raw cells of each header of the model
RawCells(h) ==
    CASE h = <<"S","t","a","t","u","s">> ->
            { <<>>, <<"d","e","l","i","v","e","r","e","d">>, <<"S","h","i","p","p","e","d">>, <<"R","T","O"," ","I","n","i","t","i","a","t","e","d">>, <<"n","/","a">> }
      [] h = <<"L","a","t","e","s","t"," ","N","D","R"," ","D","a","t","e">> -> { <<>>, <<"2","0","2","5","-","0","2","-","0","3">> }
      [] h = <<"O","r","d","e","r"," ","D","e","l","i","v","e","r","e","d"," ","D","a","t","e">> -> { <<>>, <<"0","1","/","1","5","/","2","5">>, <<"s","o","o","n">> }
      [] h = <<"R","T","O"," ","I","n","i","t","i","a","t","e","d"," ","D","a","t","e">> -> { NULL, <<"2","0","2","5","-","0","2","-","1","0">> }
      [] h = <<"L","a","t","e","s","t"," ","O","F","D"," ","D","a","t","e">> -> { <<>>, <<"2","0","2","5","-","0","2","-","0","1">> }
      [] h = <<"N","d","r">> -> { <<>>, <<"y","e","s">> }
      [] h = <<"C","a","n","c","e","l","l","a","t","i","o","n"," ","R","e","a","s","o","n">> -> { <<>>, <<"C","u","s","t","o","m","e","r"," ","r","e","q","u","e","s","t">> }
      [] h = <<"S","t","a","t","e">> -> { <<>>, <<"K","a","r","n","a","t","a","k","a">> }
      [] h = <<"O","r","d","e","r"," ","T","o","t","a","l">> -> { <<"1",",","5","0","0",".","0","0">> }
      [] h = <<"O","r","d","e","r"," ","D","a","t","e">> -> { <<>>, <<"0","1","/","1","5","/","2","5">> }
      [] h = <<"O","r","d","e","r","T","o","t","a","l">> -> { <<>>, <<"1",",","5","0","0",".","0","0">>, <<"a","b","c">> }
      [] h = <<"C","r","e","a","t","e","d"," ","a","t">> -> { <<"0","1","/","1","5","/","2","5">> }

\* the header sets of the raw tables
RawHeaderSets ==
    { { <<"S","t","a","t","u","s">>, <<"L","a","t","e","s","t"," ","N","D","R"," ","D","a","t","e">> },
      { <<"L","a","t","e","s","t"," ","N","D","R"," ","D","a","t","e">> },
      { <<"S","t","a","t","u","s">>, <<"O","r","d","e","r"," ","D","e","l","i","v","e","r","e","d"," ","D","a","t","e">>, <<"L","a","t","e","s","t"," ","O","F","D"," ","D","a","t","e">> },
      { <<"S","t","a","t","u","s">>, <<"R","T","O"," ","I","n","i","t","i","a","t","e","d"," ","D","a","t","e">> },
      { <<"S","t","a","t","u","s">>, <<"N","d","r">>, <<"C","a","n","c","e","l","l","a","t","i","o","n"," ","R","e","a","s","o","n">> },
      { <<"S","t","a","t","u","s">>, <<"S","t","a","t","e">> },
      { <<"S","t","a","t","u","s">>, <<"O","r","d","e","r"," ","T","o","t","a","l">>, <<"O","r","d","e","r"," ","D","a","t","e">> },
      { <<"O","r","d","e","r","T","o","t","a","l">>, <<"C","r","e","a","t","e","d"," ","a","t">> } }

RawRows(H) == { row \in [H -> UNION {RawCells(h) : h \in H}] :
                    \A h \in H : row[h] \in RawCells(h) }

RawTables ==
    UNION { { Table(H, rows) : rows \in SeqsUpTo(RawRows(H), MaxRows) } :
            H \in RawHeaderSets }

InitPre ==
    /\ raw_df \in RawTables
    /\ pre_out = NotPreprocessed
    /\ pre_again = NotPreprocessed
    /\ IdleStatus
    /\ IdleFilter
    /\ IdleCompute
    /\ IdleTop
    /\ IdleJson
    /\ IdleExt

\* the ticks of the clock datetime.now() reads
Clock == 1..MaxClock

Preprocess ==
    /\ raw_df # NoTable
    /\ ~pre_out.done
    /\ \E now \in Clock \ {MaxClock} :
           \E outcome \in preprocess_shipping_data(raw_df, now) :
               pre_out' = [done |-> TRUE, at |-> now] @@ outcome
    /\ UNCHANGED <<gds_row, gds_out, raw_df, pre_again, pl_df, lf, filters, filtered,
                   computeVars, topVars, jsonVars, extVars>>

\* preprocess_shipping_data called again, later, on the table it returned
PreprocessAgain ==
    /\ pre_out.done
    /\ ~pre_out.raised
    /\ pre_out.duplicated = {}
    /\ ~pre_again.done
    /\ \E now \in Clock :
           /\ now > pre_out.at
           /\ \E outcome \in preprocess_shipping_data(pre_out.df, now) :
                  pre_again' = [done |-> TRUE, at |-> now] @@ outcome
    /\ UNCHANGED <<gds_row, gds_out, raw_df, pre_out, pl_df, lf, filters, filtered,
                   computeVars, topVars, jsonVars, extVars>>

NextPre == Preprocess \/ PreprocessAgain

SpecPre == InitPre /\ [][NextPre]_vars

\* ------------------------------------------------------------------------
\* SpecFilter: normalize_dataframe_pl, then filter_shipping_data_pl
\* ------------------------------------------------------------------------

MaxFrameRows == 2

FrameColumns ==
    { <<"s","t","a","t","u","s">>, <<"p","a","y","m","e","n","t","_","m","e","t","h","o","d">>, <<"s","t","a","t","e">>, <<"c","o","u","r","i","e","r","_","c","o","m","p","a","n","y">>, <<"c","h","a","n","n","e","l">>,
      <<"l","a","t","e","s","t","_","n","d","r","_","r","e","a","s","o","n">>, <<"o","r","d","e","r","_","d","a","t","e">>, <<"o","r","d","e","r","_","v","a","l","u","e">>, <<"s","k","u">>,
      <<"p","r","o","d","u","c","t","_","n","a","m","e">>, <<"n","d","r","_","f","l","a","g">> }

FrameRow(status, payment, state, courier, channel, reason, date, value, sku,
         product, ndr) ==
    [ c \in FrameColumns |->
        CASE c = <<"s","t","a","t","u","s">> -> status
          [] c = <<"p","a","y","m","e","n","t","_","m","e","t","h","o","d">> -> payment
          [] c = <<"s","t","a","t","e">> -> state
          [] c = <<"c","o","u","r","i","e","r","_","c","o","m","p","a","n","y">> -> courier
          [] c = <<"c","h","a","n","n","e","l">> -> channel
          [] c = <<"l","a","t","e","s","t","_","n","d","r","_","r","e","a","s","o","n">> -> reason
          [] c = <<"o","r","d","e","r","_","d","a","t","e">> -> date
          [] c = <<"o","r","d","e","r","_","v","a","l","u","e">> -> value
          [] c = <<"s","k","u">> -> sku
          [] c = <<"p","r","o","d","u","c","t","_","n","a","m","e">> -> product
          [] c = <<"n","d","r","_","f","l","a","g">> -> ndr ]

FrameRows ==
    { FrameRow(<<"D","e","l","i","v","e","r","e","d">>, <<"C","a","s","h"," ","o","n"," ","D","e","l","i","v","e","r","y">>, <<"K","a","r","n","a","t","a","k","a">>, <<"D","e","l","h","i","v","e","r","y">>,
               <<"S","h","o","p","i","f","y">>, NULL, <<"2","0","2","5","-","0","1","-","1","0"," ","0","0",":","0","0",":","0","0">>, <<"1","5","0","0">>, <<"A","1">>,
               <<"M","u","g">>, PyFalse),
      FrameRow(<<"N","D","R">>, <<"C","O","D">>, <<" ","k","a","r","n","a","t","a","k","a"," ">>, <<"B","l","u","e","D","a","r","t">>, <<"s","h","o","p","i","f","y">>,
               <<"C","u","s","t","o","m","e","r"," ","R","e","f","u","s","e","d">>, <<"2","0","2","5","-","0","1","-","3","1"," ","1","0",":","0","0",":","0","0">>, <<"2","0","0">>, <<"B","2">>,
               <<"C","u","p">>, PyTrue),
      FrameRow(<<"r","t","o","_","i","n","i","t","i","a","t","e","d">>, <<"P","r","e","p","a","i","d"," ","O","n","l","i","n","e">>, <<"K","e","r","a","l","a">>, <<"D","e","l","h","i","v","e","r","y">>,
               <<"A","m","a","z","o","n">>, <<"A","d","d","r","e","s","s"," ","I","s","s","u","e">>, <<"2","0","2","5","-","0","1","-","3","1"," ","0","0",":","0","0",":","0","0">>, <<"9","0","0">>,
               <<"A","1">>, <<"C","u","p">>, PyTrue),
      FrameRow(NULL, <<"c","o","d">>, <<>>, NULL, NULL, <<"c","u","s","t","o","m","e","r"," ","r","e","f","u","s","e","d"," ">>, NULL, NULL,
               NULL, NULL, PyFalse) }

\* the column sets of the frames: every field, no filterable field, some
FrameColumnSets ==
    { FrameColumns,
      { <<"o","r","d","e","r","_","d","a","t","e">>, <<"o","r","d","e","r","_","v","a","l","u","e">>, <<"n","d","r","_","f","l","a","g">> },
      { <<"s","t","a","t","u","s">>, <<"s","t","a","t","e">>, <<"c","h","a","n","n","e","l">>, <<"o","r","d","e","r","_","d","a","t","e">>, <<"o","r","d","e","r","_","v","a","l","u","e">> } }

Project(row, columns) == [c \in columns |-> row[c]]

Frames ==
    { Table(columns, [i \in DOMAIN rows |-> Project(rows[i], columns)]) :
        columns \in FrameColumnSets,
        rows \in {<<>>} \cup SeqsUpTo(FrameRows, MaxFrameRows) }

FilterValues(key) ==
    CASE key = "startDate" -> { Single(<<"2","0","2","5","-","0","1","-","1","0">>), Single(<<"2","0","2","5","-","0","1","-","3","1">>), Single(<<>>) }
      [] key = "endDate" -> { Single(<<"2","0","2","5","-","0","1","-","1","0">>), Single(<<"2","0","2","5","-","0","1","-","3","1">>), Single(<<>>) }
      [] key = "orderStatus" ->
            { Single(<<"A","l","l">>), Single(<<"d","e","l","i","v","e","r","e","d">>), Single(<<"R","T","O"," ","I","N","I","T","I","A","T","E","D">>),
              List(<< <<"n","d","r">>, <<"D","e","l","i","v","e","r","e","d">> >>), List(<<>>) }
      [] key = "paymentMethod" ->
            { Single(<<"A","l","l">>), Single(<<"C","O","D">>), Single(<<"c","o","d"," ">>),
              List(<< <<"C","O","D">>, <<"P","r","e","p","a","i","d"," ","O","n","l","i","n","e">> >>) }
      [] key = "channel" ->
            { Single(<<"S","h","o","p","i","f","y">>), Single(<<"s","h","o","p","i","f","y">>),
              List(<< <<"S","h","o","p","i","f","y">>, <<"A","m","a","z","o","n">> >>) }
      [] key = "state" ->
            { Single(<<"K","a","r","n","a","t","a","k","a">>), Single(<<" ","k","a","r","n","a","t","a","k","a">>), Single(<<>>), Single(NULL),
              List(<< <<"K","a","r","n","a","t","a","k","a">>, <<"K","A","R","N","A","T","A","K","A">> >>),
              List(<< <<"K","e","r","a","l","a">>, <<"k","a","r","n","a","t","a","k","a">> >>) }
      [] key = "courier" -> { Single(<<"D","e","l","h","i","v","e","r","y">>), List(<< <<"b","l","u","e","d","a","r","t">> >>) }
      [] key = "sku" -> { Single(<<"A","1">>), List(<< <<"A","1">>, <<"B","2">> >>) }
      [] key = "productName" -> { Single(<<"M","u","g">>), List(<< <<"C","u","p">> >>) }
      [] key = "ndrDescription" ->
            { Single(<<"C","u","s","t","o","m","e","r"," ","R","e","f","u","s","e","d">>), Single(<<"c","u","s","t","o","m","e","r"," ","r","e","f","u","s","e","d">>),
              List(<< <<"A","d","d","r","e","s","s"," ","I","s","s","u","e">>, <<"C","u","s","t","o","m","e","r"," ","R","e","f","u","s","e","d">> >>) }

FilterKeys ==
    { "startDate", "endDate", "orderStatus", "paymentMethod", "channel", "state",
      "courier", "sku", "productName", "ndrDescription" }

\* the pairs of keys that are set together
FilterKeyPairs ==
    { <<"state", "paymentMethod">>, <<"orderStatus", "startDate">>,
      <<"channel", "ndrDescription">>, <<"startDate", "endDate">>,
      <<"courier", "sku">> }

FilterSpecs ==
    { NoFilters }
    \cup UNION { { [x \in {k} |-> val] : val \in FilterValues(k) } : k \in FilterKeys }
    \cup UNION { { [x \in {p[1], p[2]} |-> IF x = p[1] THEN v1 ELSE v2] :
                     v1 \in FilterValues(p[1]), v2 \in FilterValues(p[2]) } :
                 p \in FilterKeyPairs }

InitFilter ==
    /\ pl_df \in Frames
    /\ lf = NotRun
    /\ filters = NoFilters
    /\ filtered = NotRun
    /\ IdleStatus
    /\ IdlePre
    /\ IdleCompute
    /\ IdleTop
    /\ IdleJson
    /\ IdleExt

Normalize ==
    /\ ~lf.done
    /\ lf' = [done |-> TRUE, df |-> normalize_dataframe_pl(pl_df)]
    /\ UNCHANGED <<gds_row, gds_out, raw_df, pre_out, pre_again, pl_df, filters, filtered, computeVars, topVars, jsonVars, extVars>>

Filter ==
    /\ lf.done
    /\ ~filtered.done
    /\ \E f \in FilterSpecs :
        /\ filters' = f
        /\ filtered' = [done |-> TRUE, df |-> filter_shipping_data_pl(lf.df, f)]
    /\ UNCHANGED <<gds_row, gds_out, raw_df, pre_out, pre_again, pl_df, lf, computeVars, topVars, jsonVars, extVars>>

NextFilter == Normalize \/ Filter

SpecFilter == InitFilter /\ [][NextFilter]_vars

\* ------------------------------------------------------------------------
\* SpecPayment: normalize_dataframe_pl on frames with several of the
\* candidate columns of the payment field
\* ------------------------------------------------------------------------

PaymentColumns == { <<"p","a","y","m","e","n","t","_","_","m","e","t","h","o","d">>, <<"p","a","y","m","e","n","t","_","m","e","t","h","o","d">>, <<"p","a","y","m","e","n","t">> }

PaymentCells == { NULL, <<"C","O","D">>, <<"P","r","e","p","a","i","d"," ">> }

PaymentFrames ==
    UNION { { Table(columns, rows) :
                rows \in SeqsUpTo([columns -> PaymentCells], MaxFrameRows) } :
            columns \in (SUBSET PaymentColumns) \ {{}} }

InitPayment ==
    /\ pl_df \in PaymentFrames
    /\ lf = NotRun
    /\ filters = NoFilters
    /\ filtered = NotRun
    /\ IdleStatus
    /\ IdlePre
    /\ IdleCompute
    /\ IdleTop
    /\ IdleJson
    /\ IdleExt

NextPayment == Normalize

SpecPayment == InitPayment /\ [][NextPayment]_vars

\* ------------------------------------------------------------------------
\* The orchestrator and the compute route
\* ------------------------------------------------------------------------

MaxComputeRows == 2

\* the columns of a normalized frame that the aggregates read, in the sets
\* a frame that already carries _status arrives with
CarriedColumnSets ==
    { NormalizedColumns,
      { <<"_","s","t","a","t","u","s">>, <<"_","s","t","a","t","e">>, <<"_","i","s","_","d","e","l","i","v","e","r","e","d">> },
      { <<"_","s","t","a","t","u","s">>, <<"_","c","o","u","r","i","e","r">>, <<"_","s","t","a","t","e">>, <<"_","i","s","_","d","e","l","i","v","e","r","e","d">>, <<"_","i","s","_","n","d","r">>,
        <<"_","i","s","_","r","t","o">>, <<"_","o","r","d","e","r","_","v","a","l","u","e">> },
      { <<"_","s","t","a","t","u","s">> } }

ComputeRows == SeqsUpTo(FrameRows, MaxComputeRows)

\* the frames handed to compute_all_analytics: raw frames, as pandas or as
\* Polars, and Polars frames that carry _status already
ComputeInputs ==
    { [polars |-> b, df |-> Table(FrameColumns, rows)] :
        b \in BOOLEAN, rows \in {<<>>} \cup ComputeRows }
    \cup
    { [polars |-> TRUE,
       df |-> Table(columns,
                    [i \in DOMAIN rows |->
                        Project(normalize_row(FrameColumns, rows[i]), columns)])] :
        columns \in CarriedColumnSets, rows \in {<<>>} \cup ComputeRows }

SessionIds == { <<>>, <<"s","1">>, <<"s","2">> }

RequestFilters ==
    { NoFilters,
      [k \in {"state"} |-> List(<< <<"K","a","r","n","a","t","a","k","a">> >>)],
      [k \in {"state"} |-> List(<< <<"K","e","r","a","l","a">> >>)],
      [k \in {"paymentMethod"} |-> List(<< <<"C","O","D">> >>)] }

Requests == [sessionId : SessionIds, filters : RequestFilters]

\* the data of session s1 is the frame of the run
SessionStore == [s \in { <<"s","1">> } |-> compute_in.df]

InitCompute ==
    /\ compute_in \in ComputeInputs
    /\ payload = NoPayload
    /\ request = NoRequest
    /\ response = NoResponse
    /\ IdleStatus
    /\ IdlePre
    /\ IdleFilter
    /\ IdleTop
    /\ IdleJson
    /\ IdleExt

\* a call compute_all_analytics(df, session_id)
ComputeAll ==
    /\ ~payload.done
    /\ ~response.done
    /\ \E result \in compute_all_analytics(compute_in, <<"s","1">>) :
        payload' = [done |-> TRUE, value |-> result]
    /\ UNCHANGED <<gds_row, gds_out, raw_df, pre_out, pre_again, pl_df, lf, filters, filtered,
                   compute_in, request, response, topVars, jsonVars, extVars>>

\* a POST /api/analytics/compute
ComputeRequest ==
    /\ ~payload.done
    /\ ~response.done
    /\ \E req \in Requests :
        /\ request' = req
        /\ response' \in compute_analytics(req, SessionStore)
    /\ UNCHANGED <<gds_row, gds_out, raw_df, pre_out, pre_again, pl_df, lf, filters, filtered,
                   compute_in, payload, topVars, jsonVars, extVars>>

NextCompute == ComputeAll \/ ComputeRequest

SpecCompute == InitCompute /\ [][NextCompute]_vars

\* ------------------------------------------------------------------------
\* SpecTop: the two top-10 aggregates on frames of up to MaxGroups groups
\* ------------------------------------------------------------------------

MaxGroups == 11

\* the state and the courier of group j
GroupState(j) == <<"S">> \o ZFill(IntToStr(j), 2)
GroupCourier(j) == <<"C">> \o ZFill(IntToStr(j), 2)

\* group j has j rows, but the group `raised` has one row more, as many as
\* the group after it
GroupSize(j, raised) == IF j = raised THEN j + 1 ELSE j

\* the rows of group j; with `delivered` the rows of the even groups are
\* delivered
GroupRows(j, raised, delivered) ==
    [ i \in 1..GroupSize(j, raised) |->
        Col(<<"_","s","t","a","t","e">>, GroupState(j))
        @@ Col(<<"_","c","o","u","r","i","e","r">>, GroupCourier(j))
        @@ Col(<<"_","s","t","a","t","u","s">>, IF delivered /\ j % 2 = 0 THEN <<"D","E","L","I","V","E","R","E","D">> ELSE <<"N","D","R">>)
        @@ Col(<<"_","i","s","_","d","e","l","i","v","e","r","e","d">>, PyBool(delivered /\ j % 2 = 0)) ]

RECURSIVE GroupedRows(_, _, _)
GroupedRows(k, raised, delivered) ==
    IF k = 0 THEN <<>>
    ELSE GroupedRows(k - 1, raised, delivered) \o GroupRows(k, raised, delivered)

TopFrames ==
    { Table({ <<"_","s","t","a","t","e">>, <<"_","c","o","u","r","i","e","r">>, <<"_","s","t","a","t","u","s">>, <<"_","i","s","_","d","e","l","i","v","e","r","e","d">> },
            GroupedRows(k, raised, delivered)) :
        k \in 1..MaxGroups, raised \in 0..MaxGroups, delivered \in BOOLEAN }

InitTop ==
    /\ top_in \in TopFrames
    /\ top_out = NoTop
    /\ IdleStatus
    /\ IdlePre
    /\ IdleFilter
    /\ IdleCompute
    /\ IdleJson
    /\ IdleExt

\* a call compute_top_10_states_pl(df)
TopStates ==
    /\ ~top_out.done
    /\ \E outcome \in compute_top_10_states_pl(top_in) :
           top_out' = [done |-> TRUE, aggregate |-> "top-10-states"] @@ outcome
    /\ UNCHANGED <<gds_row, gds_out, raw_df, pre_out, pre_again, pl_df, lf, filters,
                   filtered, computeVars, top_in, jsonVars, extVars>>

\* a call compute_top_10_couriers_pl(df)
TopCouriers ==
    /\ ~top_out.done
    /\ \E outcome \in compute_top_10_couriers_pl(top_in) :
           top_out' = [done |-> TRUE, aggregate |-> "top-10-couriers"] @@ outcome
    /\ UNCHANGED <<gds_row, gds_out, raw_df, pre_out, pre_again, pl_df, lf, filters,
                   filtered, computeVars, top_in, jsonVars, extVars>>

NextTop == TopStates \/ TopCouriers

SpecTop == InitTop /\ [][NextTop]_vars

\* ------------------------------------------------------------------------
\* Specification of clean_for_json: one call on an object of the builtin
\* types nested to a bounded depth
\* ------------------------------------------------------------------------

MaxDepth == 2

\* the scalars of a payload: None, the bools, an int, floats finite and
\* not, a str
Scalars ==
    { NoneObject, BoolObject(PyTrue), BoolObject(PyFalse), IntObject(<<"7">>), FloatObject(<<"1",".","5">>),
      FloatObject(NaN), FloatObject(<<"i","n","f">>), FloatObject(<<"-","i","n","f">>), StrObject(<<"a">>) }

\* the keys of its dicts: a str, and the int, nan and None a group key of an
\* aggregate can be
Keys == { StrObject(<<"s","u","c","c","e","s","s">>), IntObject(<<"7">>), FloatObject(NaN), NoneObject }

RECURSIVE Objects(_)
Objects(depth) ==
    IF depth = 0 THEN Scalars
    ELSE UNION { Scalars
                 \cup {ListObject(<<>>), DictObject(<<>>)}
                 \cup {ListObject(<<Item(NoneObject, val)>>) : val \in inner}
                 \cup {DictObject(<<Item(key, val)>>) : key \in Keys, val \in inner} :
                     inner \in {Objects(depth - 1)} }

InitJson ==
    /\ json_in \in Objects(MaxDepth)
    /\ json_out = NotCleaned
    /\ IdleStatus
    /\ IdlePre
    /\ IdleFilter
    /\ IdleCompute
    /\ IdleTop
    /\ IdleExt

\* a call clean_for_json(obj)
CleanForJson ==
    /\ ~json_out.done
    /\ json_out' = [done |-> TRUE, value |-> clean_for_json(json_in)]
    /\ UNCHANGED <<gds_row, gds_out, raw_df, pre_out, pre_again, pl_df, lf, filters,
                   filtered, computeVars, topVars, json_in, extVars>>

NextJson == CleanForJson

SpecJson == InitJson /\ [][NextJson]_vars

\* ------------------------------------------------------------------------
\* Specification of get_order_week: one call on a date or on None
\* ------------------------------------------------------------------------

\* the years of the dates: a leap year, the years around it, and the
\* century years 1900 (no leap year) and 2000 (a leap year)
WeekYears == {1900, 2000, 2023, 2024, 2025}

WeekDates ==
    { MakeDate(t[1], t[2], t[3]) :
        t \in { t \in WeekYears \X (1..12) \X (1..31) :
                   ValidDate(t[1], t[2], t[3]) } }

InitWeek ==
    /\ week_in \in WeekDates \cup {NULL}
    /\ week_out = NoWeek
    /\ IdleCore /\ IdleTat /\ IdleResolve /\ IdleRq /\ IdleAdmin /\ IdleStore

\* a call get_order_week(date)
GetOrderWeek ==
    /\ ~week_out.done
    /\ week_out' = [done |-> TRUE, value |-> get_order_week(week_in)]
    /\ UNCHANGED <<coreVars, tatVars, resolveVars, rqVars, adminVars, storeVars, week_in>>

NextWeek == GetOrderWeek

SpecWeek == InitWeek /\ [][NextWeek]_vars

\* ------------------------------------------------------------------------
\* The turnaround times: calculate_tat of data_preprocessing and the TAT
\* columns of normalize_dataframe_pl, on the datetimes of one row
\* ------------------------------------------------------------------------

\* a float as a fraction, or None
TatNone == [null |-> TRUE, num |-> 0, den |-> 1]
TatFloat(num, den) == [null |-> FALSE, num |-> num, den |-> den]

\* date.toordinal(): the days since 0001-01-01, that day being 1
Ordinal(dt) ==
    LET y == YearOf(dt) - 1
    IN  365 * y + (y \div 4) - (y \div 100) + (y \div 400)
        + DayOfYear(YearOf(dt), MonthOf(dt), DayOf(dt))

\* (end_date - start_date).total_seconds()
total_seconds(start_date, end_date) ==
    (Ordinal(end_date) - Ordinal(start_date)) * 86400
    + SecondKey(end_date) - SecondKey(start_date)

\* data_preprocessing lines 287-296: the hours from start_date to end_date
calculate_tat(start_date, end_date) ==
    IF start_date = NULL \/ end_date = NULL THEN TatNone
    ELSE LET diff == total_seconds(start_date, end_date)
         IN  IF diff >= 0 THEN TatFloat(diff, 3600) ELSE TatNone

\* data_preprocessing lines 531-579: the parsed dates a TAT column is
\* computed of; a parsed date that does not exist is None in the row, and
\* the column is None as calculate_tat of it is
PreprocessTats ==
    ("order_to_pickup_tat" :> << <<"o","r","d","e","r","_","d","a","t","e">>, <<"p","i","c","k","u","p","_","d","a","t","e">> >>)
    @@ ("pickup_to_ofd_tat" :> << <<"p","i","c","k","u","p","_","d","a","t","e">>, <<"o","f","d","_","d","a","t","e">> >>)
    @@ ("ofd_to_delivery_tat" :> << <<"o","f","d","_","d","a","t","e">>, <<"d","e","l","i","v","e","r","y","_","d","a","t","e">> >>)
    @@ ("total_tat" :> << <<"o","r","d","e","r","_","d","a","t","e">>, <<"d","e","l","i","v","e","r","y","_","d","a","t","e">> >>)

preprocess_tat(row, field) ==
    calculate_tat(row[PreprocessTats[field][1]], row[PreprocessTats[field][2]])

\* analytics lines 119-127: the datetimes a TAT column is the difference of
PolarsTats ==
    ("tat_order_to_pickup" :> << <<"_","o","r","d","e","r","_","d","a","t","e">>, <<"_","p","i","c","k","u","p","_","d","a","t","e">> >>)
    @@ ("tat_order_to_approval" :> << <<"_","o","r","d","e","r","_","d","a","t","e">>, <<"_","a","p","p","r","o","v","a","l","_","d","a","t","e">> >>)
    @@ ("tat_approval_to_awb" :> << <<"_","a","p","p","r","o","v","a","l","_","d","a","t","e">>, <<"_","a","w","b","_","d","a","t","e">> >>)
    @@ ("tat_awb_to_pickup" :> << <<"_","a","w","b","_","d","a","t","e">>, <<"_","p","i","c","k","u","p","_","d","a","t","e">> >>)
    @@ ("tat_pickup_to_ofd" :> << <<"_","p","i","c","k","u","p","_","d","a","t","e">>, <<"_","o","f","d","_","d","a","t","e">> >>)
    @@ ("tat_order_to_ofd" :> << <<"_","o","r","d","e","r","_","d","a","t","e">>, <<"_","o","f","d","_","d","a","t","e">> >>)

\* (pl.col(end) - pl.col(start)).dt.total_seconds() / 3600 / 24: null when
\* either datetime is null; line 121 fills the null of
\* tat_order_to_approval with 0.0
tat_expr(row, field) ==
    LET start_date == row[PolarsTats[field][1]]
        end_date == row[PolarsTats[field][2]]
    IN  IF start_date = NULL \/ end_date = NULL
        THEN IF field = "tat_order_to_approval" THEN TatFloat(0, 1) ELSE TatNone
        ELSE TatFloat(total_seconds(start_date, end_date), 3600 * 24)

\* the datetimes of the rows
TatDates == { NULL, <<"2","0","2","5","-","0","1","-","0","8"," ","1","8",":","0","0",":","0","0">>, <<"2","0","2","5","-","0","1","-","1","0"," ","0","9",":","3","0",":","0","0">> }

\* a row as preprocess_shipping_data has it, with its parsed dates, and as
\* normalize_dataframe_pl has it, with its datetime columns
PreprocessTatRows ==
    [ { <<"o","r","d","e","r","_","d","a","t","e">>, <<"p","i","c","k","u","p","_","d","a","t","e">>, <<"o","f","d","_","d","a","t","e">>, <<"d","e","l","i","v","e","r","y","_","d","a","t","e">> }
        -> TatDates ]

PolarsTatRows ==
    [ { <<"_","o","r","d","e","r","_","d","a","t","e">>, <<"_","a","p","p","r","o","v","a","l","_","d","a","t","e">>, <<"_","a","w","b","_","d","a","t","e">>, <<"_","p","i","c","k","u","p","_","d","a","t","e">>,
        <<"_","o","f","d","_","d","a","t","e">> } -> TatDates ]

InitTat ==
    /\ tat_row \in PreprocessTatRows \cup PolarsTatRows
    /\ tat_out = NoTat
    /\ IdleCore /\ IdleWeek /\ IdleResolve /\ IdleRq /\ IdleAdmin /\ IdleStore

\* a TAT column of preprocess_shipping_data on the row
PreprocessTat ==
    /\ ~tat_out.done
    /\ tat_row \in PreprocessTatRows
    /\ \E field \in DOMAIN PreprocessTats :
           tat_out' = [done |-> TRUE, field |-> field] @@ preprocess_tat(tat_row, field)
    /\ UNCHANGED <<coreVars, weekVars, resolveVars, rqVars, adminVars, storeVars, tat_row>>

\* a TAT column of normalize_dataframe_pl on the row
NormalizeTat ==
    /\ ~tat_out.done
    /\ tat_row \in PolarsTatRows
    /\ \E field \in DOMAIN PolarsTats :
           tat_out' = [done |-> TRUE, field |-> field] @@ tat_expr(tat_row, field)
    /\ UNCHANGED <<coreVars, weekVars, resolveVars, rqVars, adminVars, storeVars, tat_row>>

NextTat == PreprocessTat \/ NormalizeTat

SpecTat == InitTat /\ [][NextTat]_vars

\* ------------------------------------------------------------------------
\* Specification of resolve_column: one call on a list of columns and the
\* alias list of a field
\* ------------------------------------------------------------------------

MaxColumns == 3

\* the columns of the frames: aliases of the three fields and one other
ResolveNames ==
    { <<"o","r","i","g","i","n","a","l","_","s","t","a","t","u","s">>, <<"s","t","a","t","u","s">>, <<"d","e","l","i","v","e","r","y","_","s","t","a","t","u","s">>, <<"o","r","d","e","r","_","d","a","t","e">>,
      <<"c","r","e","a","t","e","d","_","a","t">>, <<"s","t","a","t","e">>, <<"a","d","d","r","e","s","s","_","s","t","a","t","e">>, <<"s","k","u">> }

ResolveFields == { "status", "order_date", "state" }

\* the column lists of a frame: the names of a frame are distinct
ColumnLists ==
    { l \in UNION {[1..n -> ResolveNames] : n \in 0..MaxColumns} :
        \A i, j \in DOMAIN l : i # j => l[i] # l[j] }

InitResolve ==
    /\ resolve_in \in [df_columns : ColumnLists,
                        keys : {COLUMN_MAP(f) : f \in ResolveFields}]
    /\ resolve_out = NotResolved
    /\ IdleCore /\ IdleWeek /\ IdleTat /\ IdleRq /\ IdleAdmin /\ IdleStore

\* a call resolve_column(df.columns, COLUMN_MAP[field])
ResolveColumn ==
    /\ ~resolve_out.done
    /\ resolve_out' =
           [done |-> TRUE,
            value |-> resolve_column(Range(resolve_in.df_columns), resolve_in.keys)]
    /\ UNCHANGED <<coreVars, weekVars, tatVars, rqVars, adminVars, storeVars, resolve_in>>

NextResolve == ResolveColumn

SpecResolve == InitResolve /\ [][NextResolve]_vars

\* ------------------------------------------------------------------------
\* rq_queue: callers of enqueue_analytics_computation and RQ workers on
\* one Redis.  Every Redis command of the code is one step.
\* ------------------------------------------------------------------------

MaxCallers == 2
MaxWorkers == 2
MaxCalls == 2

Callers == 1..MaxCallers
Workers == 1..MaxWorkers
Sessions == {"s1", "s2"}

\* a caller outside a call, having made a number of calls
Outside(made) ==
    [at |-> "outside", session |-> "", made |-> made, returned |-> "", created |-> FALSE]

InitRq ==
    /\ rq_jobs = NoJobs
    /\ rq_queue = <<>>
    /\ rq_call = [c \in Callers |-> Outside(0)]
    /\ rq_work = [w \in Workers |-> ""]
    /\ IdleCore /\ IdleWeek /\ IdleTat /\ IdleResolve /\ IdleAdmin /\ IdleStore

\* the status of the job of a session, "" when Redis has no such job
job_status(jobs, session) ==
    IF session \in DOMAIN jobs THEN jobs[session].status ELSE ""

\* line 23: a caller enters enqueue_analytics_computation(session_id)
Call(c, session) ==
    /\ rq_call[c].at = "outside"
    /\ rq_call[c].made < MaxCalls
    /\ rq_call' = [rq_call EXCEPT ![c] =
                      [at |-> "fetch", session |-> session, made |-> @.made + 1,
                       returned |-> "", created |-> FALSE]]
    /\ UNCHANGED <<rq_jobs, rq_queue, rq_work>>

\* line 33: Job.fetch raises NoSuchJobError when Redis has no such job, and
\* line 50 goes on to line 55
Fetch(c) ==
    /\ rq_call[c].at = "fetch"
    /\ rq_call' = [rq_call EXCEPT ![c].at =
                      IF rq_call[c].session \in DOMAIN rq_jobs
                      THEN "get_status" ELSE "enqueue"]
    /\ UNCHANGED <<rq_jobs, rq_queue, rq_work>>

\* lines 34-49: get_status() reads the status from Redis; a queued or
\* started job and a job finished in the last 30 seconds is returned
GetStatus(c) ==
    /\ rq_call[c].at = "get_status"
    /\ LET session == rq_call[c].session
           state == job_status(rq_jobs, session)
           recent == session \in DOMAIN rq_jobs /\ rq_jobs[session].recent
       IN  rq_call' = [rq_call EXCEPT ![c] =
               IF state \in {"queued", "started"} \/ (state = "finished" /\ recent)
               THEN [@ EXCEPT !.at = "returned", !.returned = state]
               ELSE [@ EXCEPT !.at = "enqueue"]]
    /\ UNCHANGED <<rq_jobs, rq_queue, rq_work>>

\* lines 55-66: analytics_queue.enqueue(..., job_id=job_id) writes the job
\* hash with the status queued and pushes the id on the list of the queue
Enqueue(c) ==
    /\ rq_call[c].at = "enqueue"
    /\ rq_jobs' = (rq_call[c].session :> [status |-> "queued", recent |-> FALSE])
                      @@ rq_jobs
    /\ rq_queue' = Append(rq_queue, rq_call[c].session)
    /\ rq_call' = [rq_call EXCEPT ![c] =
                      [@ EXCEPT !.at = "returned", !.returned = "queued",
                                !.created = TRUE]]
    /\ UNCHANGED rq_work

\* the caller has its job and leaves the function
Return(c) ==
    /\ rq_call[c].at = "returned"
    /\ rq_call' = [rq_call EXCEPT ![c] = Outside(@.made)]
    /\ UNCHANGED <<rq_jobs, rq_queue, rq_work>>

\* an RQ worker pops the first id of the list and starts its job
Dequeue(w) ==
    /\ rq_work[w] = ""
    /\ rq_queue # <<>>
    /\ rq_work' = [rq_work EXCEPT ![w] = Head(rq_queue)]
    /\ rq_queue' = Tail(rq_queue)
    /\ rq_jobs' = [rq_jobs EXCEPT ![Head(rq_queue)].status = "started"]
    /\ UNCHANGED rq_call

\* the job of a worker ends: compute_all_analytics has returned
Finish(w) ==
    /\ rq_work[w] # ""
    /\ rq_jobs' = [rq_jobs EXCEPT ![rq_work[w]] = [status |-> "finished", recent |-> TRUE]]
    /\ rq_work' = [rq_work EXCEPT ![w] = ""]
    /\ UNCHANGED <<rq_queue, rq_call>>

\* 30 seconds pass after the end of the job of a session
Age(session) ==
    /\ job_status(rq_jobs, session) = "finished"
    /\ rq_jobs[session].recent
    /\ rq_jobs' = [rq_jobs EXCEPT ![session].recent = FALSE]
    /\ UNCHANGED <<rq_queue, rq_call, rq_work>>

CallerStep ==
    /\ \E c \in Callers :
           \/ \E session \in Sessions : Call(c, session)
           \/ Fetch(c)
           \/ GetStatus(c)
           \/ Enqueue(c)
           \/ Return(c)
    /\ UNCHANGED <<coreVars, weekVars, tatVars, resolveVars, adminVars, storeVars>>

WorkerStep ==
    /\ \E w \in Workers : Dequeue(w) \/ Finish(w)
    /\ UNCHANGED <<coreVars, weekVars, tatVars, resolveVars, adminVars, storeVars>>

ClockStep ==
    /\ \E session \in Sessions : Age(session)
    /\ UNCHANGED <<coreVars, weekVars, tatVars, resolveVars, adminVars, storeVars>>

NextRq == CallerStep \/ WorkerStep \/ ClockStep

SpecRq == InitRq /\ [][NextRq]_vars

\* ------------------------------------------------------------------------
\* auth_service: callers of AuthService.create_admin_user on one users
\* collection.  Every MongoDB command of the code is one step.
\* ------------------------------------------------------------------------

MaxAdminCallers == 2
MaxAdminCalls == 2

AdminCallers == 1..MaxAdminCallers

\* lines 15-20: the bcrypt hash of a password
hash_password(password) == [bcrypt |-> TRUE, of |-> password]

User(id, role, email, name, password) ==
    [id |-> id, role |-> role, email |-> email, name |-> name, password |-> password]

\* the arguments of the calls
AdminArgs ==
    { [email |-> "a@shop.in", password |-> "pa", name |-> "Admin User"],
      [email |-> "b@shop.in", password |-> "pb", name |-> "Owner"] }

\* the collections the calls start on: empty, a member only, one admin,
\* two admins
InitialUsers ==
    { <<>>,
      << User(1, "member", "m@shop.in", "Member", hash_password("pm")) >>,
      << User(1, "admin", "old@shop.in", "Old Admin", [bcrypt |-> FALSE, of |-> "plain"]) >>,
      << User(1, "admin", "old@shop.in", "Old Admin", hash_password("po")),
         User(2, "member", "m@shop.in", "Member", hash_password("pm")),
         User(3, "admin", "b@shop.in", "Owner", hash_password("pb")) >> }

NoArgs == [email |-> "", password |-> "", name |-> ""]

OutsideAdmin(made) ==
    [at |-> "outside", args |-> NoArgs, existing_admins |-> <<>>, made |-> made]

InitAdmin ==
    /\ users \in InitialUsers
    /\ admin_call = [c \in AdminCallers |-> OutsideAdmin(0)]
    /\ admin_done = {}
    /\ IdleCore /\ IdleWeek /\ IdleTat /\ IdleResolve /\ IdleRq /\ IdleStore

\* the ids of the documents of a collection that match {"role": "admin"}
find_admins(collection) ==
    LET at == SelectSeq([i \in DOMAIN collection |-> i],
                        LAMBDA i : collection[i].role = "admin")
    IN  [k \in DOMAIN at |-> collection[at[k]].id]

\* line 79: a caller enters create_admin_user(email, password, name)
CallAdmin(c, args) ==
    /\ admin_call[c].at = "outside"
    /\ admin_call[c].made < MaxAdminCalls
    /\ admin_call' = [admin_call EXCEPT ![c] =
                         [at |-> "find", args |-> args, existing_admins |-> <<>>,
                          made |-> @.made + 1]]
    /\ UNCHANGED <<users, admin_done>>

\* lines 92-96: find({"role": "admin"}) and the branch on its result
FindAdmins(c) ==
    /\ admin_call[c].at = "find"
    /\ LET existing_admins == find_admins(users)
       IN  admin_call' = [admin_call EXCEPT ![c] =
               [@ EXCEPT !.existing_admins = existing_admins,
                         !.at = IF existing_admins = <<>> THEN "insert"
                                ELSE IF Len(existing_admins) > 1 THEN "delete"
                                ELSE "update"]]
    /\ UNCHANGED <<users, admin_done>>

\* lines 97-101: delete_many of the admins other than the first one found
DeleteExtraAdmins(c) ==
    /\ admin_call[c].at = "delete"
    /\ LET admin_to_keep == admin_call[c].existing_admins[1]
       IN  users' = SelectSeq(users,
                       LAMBDA u : ~(u.role = "admin" /\ u.id # admin_to_keep))
    /\ admin_call' = [admin_call EXCEPT ![c].at = "update"]
    /\ UNCHANGED admin_done

\* lines 105-134: update_one of the first admin found, which changes
\* nothing when the document is no longer there, and the return
UpdateAdmin(c) ==
    /\ admin_call[c].at = "update"
    /\ LET admin_id == admin_call[c].existing_admins[1]
           args == admin_call[c].args
       IN  users' = [i \in DOMAIN users |->
                       IF users[i].id = admin_id
                       THEN User(admin_id, "admin", args.email, args.name,
                                 hash_password(args.password))
                       ELSE users[i]]
    /\ admin_done' = admin_done \cup {admin_call[c].args}
    /\ admin_call' = [admin_call EXCEPT ![c] = OutsideAdmin(@.made)]

\* lines 137-155: insert_one of a new admin, and the return
InsertAdmin(c) ==
    /\ admin_call[c].at = "insert"
    /\ LET args == admin_call[c].args
           taken == {users[i].id : i \in DOMAIN users}
           id == CHOOSE n \in 1..(Len(users) + 1) : n \notin taken
       IN  users' = Append(users, User(id, "admin", args.email, args.name,
                                       hash_password(args.password)))
    /\ admin_done' = admin_done \cup {admin_call[c].args}
    /\ admin_call' = [admin_call EXCEPT ![c] = OutsideAdmin(@.made)]

AdminStep(c) ==
    \/ \E args \in AdminArgs : CallAdmin(c, args)
    \/ FindAdmins(c)
    \/ DeleteExtraAdmins(c)
    \/ UpdateAdmin(c)
    \/ InsertAdmin(c)

NextAdmin ==
    /\ \E c \in AdminCallers : AdminStep(c)
    /\ UNCHANGED <<coreVars, weekVars, tatVars, resolveVars, rqVars, storeVars>>

SpecAdmin == InitAdmin /\ [][NextAdmin]_vars

\* ------------------------------------------------------------------------
\* data_store: calls of store_dataframe_as_parquet, one after the other, on
\* the cache directory and the Redis session hashes.  to_parquet is pandas:
\* it writes the file or raises, and a write that raises leaves the file as
\* it was or leaves a partial file.

MaxStoreCalls == 2
MaxRecords == 2
StoreSessions == {"s1", "s2"}
WriteErrors == {"disk full", "unsupported dtype"}

SESSION_KEY_PREFIX == "session:"
SESSION_TTL == 86400

get_parquet_path(session_id) == "data_cache/" \o session_id \o ".parquet"

\* a local variable of the call that no assignment has reached
Unbound == "<unbound>"

NoHash == [f \in {} |-> ""]
NoKey == [hash |-> NoHash, ttl |-> 0]

\* redis.hset(key, mapping=...): the fields of the mapping are set, the
\* other fields of the hash stay
hset(entry, mapping) ==
    [entry EXCEPT !.hash =
        [f \in DOMAIN entry.hash \cup DOMAIN mapping |->
            IF f \in DOMAIN mapping THEN mapping[f] ELSE entry.hash[f]]]

expire(entry, ttl) == [entry EXCEPT !.ttl = ttl]

\* the session hash an earlier call that succeeded has left
ProcessedKey(session_id) ==
    expire(hset(NoKey, [parquet_path |-> get_parquet_path(session_id),
                        record_count |-> ToString(1),
                        status |-> "processed"]),
           SESSION_TTL)

OutsideStore(made) ==
    [at |-> "outside", session_id |-> "", rows |-> 0, file_path |-> "",
     session_key |-> Unbound, e |-> "", raised |-> "", before |-> NoKey,
     made |-> made]

InitStore ==
    /\ \E stored \in SUBSET StoreSessions :
           /\ store_disk = [s \in StoreSessions |->
                               IF s \in stored THEN "written" ELSE "absent"]
           /\ store_redis = [s \in StoreSessions |->
                                IF s \in stored THEN ProcessedKey(s) ELSE NoKey]
    /\ store_call = OutsideStore(0)
    /\ IdleCore /\ IdleWeek /\ IdleTat /\ IdleResolve /\ IdleRq /\ IdleAdmin

\* lines 29-34: the call, with a frame of `rows` rows
StoreDataframe(session_id, rows) ==
    /\ store_call.at = "outside"
    /\ store_call.made < MaxStoreCalls
    /\ store_call' = [OutsideStore(store_call.made) EXCEPT
                         !.at = "to_parquet",
                         !.session_id = session_id,
                         !.rows = rows,
                         !.file_path = get_parquet_path(session_id),
                         !.before = store_redis[session_id]]
    /\ UNCHANGED <<store_disk, store_redis>>

\* line 38: df.to_parquet(file_path) writes the file
ToParquetWrites ==
    /\ store_call.at = "to_parquet"
    /\ store_disk' = [store_disk EXCEPT ![store_call.session_id] = "written"]
    /\ store_call' = [store_call EXCEPT !.at = "metadata"]
    /\ UNCHANGED store_redis

\* lines 38-39: df.to_parquet(file_path) raises e
ToParquetRaises(e, left) ==
    /\ store_call.at = "to_parquet"
    /\ left \in {store_disk[store_call.session_id], "partial"}
    /\ store_disk' = [store_disk EXCEPT ![store_call.session_id] = left]
    /\ store_call' = [store_call EXCEPT !.at = "except", !.e = e]
    /\ UNCHANGED store_redis

\* lines 40-46: the except block.  session_key is a local variable whose
\* only assignment is at line 50, so its read at line 44 raises
\* UnboundLocalError out of the function
WriteFailed ==
    /\ store_call.at = "except"
    /\ store_disk' = [store_disk EXCEPT ![store_call.session_id] = "absent"]
    /\ IF store_call.session_key = Unbound
       THEN /\ store_call' = [store_call EXCEPT !.at = "outside",
                                                !.raised = "UnboundLocalError",
                                                !.made = @ + 1]
            /\ UNCHANGED store_redis
       ELSE /\ store_redis' = [store_redis EXCEPT ![store_call.session_id] =
                                  hset(hset(@, [status |-> "write_failed"]),
                                       [error_message |-> store_call.e])]
            /\ store_call' = [store_call EXCEPT !.at = "outside", !.made = @ + 1]

\* lines 50-57: the metadata of the file written, and the return
StoreMetadata ==
    /\ store_call.at = "metadata"
    /\ LET session_key == SESSION_KEY_PREFIX \o store_call.session_id
       IN  /\ store_redis' = [store_redis EXCEPT ![store_call.session_id] =
                                 expire(hset(@, [parquet_path |-> store_call.file_path,
                                                 record_count |-> ToString(store_call.rows),
                                                 status |-> "processed"]),
                                        SESSION_TTL)]
           /\ store_call' = [store_call EXCEPT !.at = "outside",
                                               !.session_key = session_key,
                                               !.made = @ + 1]
    /\ UNCHANGED store_disk

NextStore ==
    /\ \/ \E session_id \in StoreSessions, rows \in 0..MaxRecords :
              StoreDataframe(session_id, rows)
       \/ ToParquetWrites
       \/ \E e \in WriteErrors, left \in {"absent", "partial", "written"} :
              ToParquetRaises(e, left)
       \/ WriteFailed
       \/ StoreMetadata
    /\ UNCHANGED <<coreVars, weekVars, tatVars, resolveVars, rqVars, adminVars>>

SpecStore == InitStore /\ [][NextStore]_vars

\* ------------------------------------------------------------------------
\* Properties
\* ------------------------------------------------------------------------

\* the status string is one of the explicit tokens, exactly or ignoring
\* spaces, hyphens and underscores
IsExplicitToken(status_str) ==
    \E i \in DOMAIN explicit_statuses :
        \/ status_str = explicit_statuses[i]
        \/ normalize_for_comparison(status_str)
             = normalize_for_comparison(explicit_statuses[i])

\* C2: a row whose upper-cased status is an explicit token gets a
\* delivery_status that is the same whatever its date columns hold, and that
\* is read off the status string (the string itself or the canonical
\* spelling of the RTO token it holds), never inferred from a date.
C2_ExplicitStatusWins ==
    (gds_out # NULL /\ IsExplicitToken(status_str_of(gds_row))) =>
        /\ \A d \in DateConfigs : get_delivery_status(WithDates(gds_row, d)) = gds_out
        /\ \/ gds_out = status_str_of(gds_row)
           \/ /\ gds_out \in { <<"R","T","O"," ","D","E","L","I","V","E","R","E","D">>, <<"R","T","O"," ","I","N","I","T","I","A","T","E","D">>,
                               <<"R","T","O"," ","I","N"," ","T","R","A","N","S","I","T">>, <<"R","T","O"," ","N","D","R">> }
              /\ Contains(normalize_for_comparison(status_str_of(gds_row)),
                          normalize_for_comparison(gds_out))

\* C2 witness: an explicit-token row that carries a delivery date and an NDR
\* date has been classified
C2_Witness ==
    /\ gds_out = <<"I","N"," ","T","R","A","N","S","I","T">>
    /\ status_str_of(gds_row) = <<"I","N"," ","T","R","A","N","S","I","T">>
    /\ date_present(delivered_date_of(gds_row))
    /\ date_present(ndr_date_of(gds_row))


\* the raw status cell of row i of the raw table, None without a Status column
RawStatus(i) ==
    IF <<"S","t","a","t","u","s">> \in raw_df.columns THEN raw_df.rows[i][<<"S","t","a","t","u","s">>] ELSE NULL

\* row i of the raw table has a non-empty cell under header h
RawHas(i, h) ==
    h \in raw_df.columns /\ standardize_missing_values(raw_df.rows[i][h]) # NULL

OutCell(i, c) == pre_out.df.rows[i][c]

\* C1: every output row of preprocess_shipping_data has a non-null, non-empty
\* delivery_status, and a row with a missing or empty status and no delivery,
\* NDR, RTO or out-for-delivery date gets PENDING.
C1_DeliveryStatusNeverEmpty ==
    pre_out.done =>
        \A i \in DOMAIN pre_out.df.rows :
            /\ OutCell(i, <<"d","e","l","i","v","e","r","y","_","s","t","a","t","u","s">>) \notin {NULL, <<>>}
            /\ ( /\ standardize_missing_values(RawStatus(i)) = NULL
                 /\ ~RawHas(i, <<"O","r","d","e","r"," ","D","e","l","i","v","e","r","e","d"," ","D","a","t","e">>)
                 /\ ~RawHas(i, <<"L","a","t","e","s","t"," ","N","D","R"," ","D","a","t","e">>)
                 /\ ~RawHas(i, <<"R","T","O"," ","I","n","i","t","i","a","t","e","d"," ","D","a","t","e">>)
                 /\ ~RawHas(i, <<"L","a","t","e","s","t"," ","O","F","D"," ","D","a","t","e">>) )
               => OutCell(i, <<"d","e","l","i","v","e","r","y","_","s","t","a","t","u","s">>) = <<"P","E","N","D","I","N","G">>

\* C3: a row with an empty status, no delivery date and an NDR date, such as
\* {"Status": "", "Latest NDR Date": "2025-02-03"}, gets delivery_status NDR
\* and ndr_flag true.
C3_EmptyStatusWithNdrDateIsNdr ==
    pre_out.done =>
        \A i \in DOMAIN pre_out.df.rows :
            ( /\ standardize_missing_values(RawStatus(i)) = NULL
              /\ ~RawHas(i, <<"O","r","d","e","r"," ","D","e","l","i","v","e","r","e","d"," ","D","a","t","e">>)
              /\ RawHas(i, <<"L","a","t","e","s","t"," ","N","D","R"," ","D","a","t","e">>) )
            => /\ OutCell(i, <<"d","e","l","i","v","e","r","y","_","s","t","a","t","u","s">>) = <<"N","D","R">>
               /\ OutCell(i, <<"n","d","r","_","f","l","a","g">>) = PyTrue

\* ---- the filter engine ----

\* the source field a filter key reads
FilterField(key) ==
    CASE key = "orderStatus" -> "status"
      [] key = "paymentMethod" -> "payment"
      [] key = "channel" -> "channel"
      [] key = "state" -> "state"
      [] key = "courier" -> "courier"
      [] key = "sku" -> "sku"
      [] key = "productName" -> "product"
      [] key = "ndrDescription" -> "ndr_description"
      [] key \in {"startDate", "endDate"} -> "order_date"

\* the source column of a filter key in the frame, None when none resolved
SourceColumn(key) == resolve_column(pl_df.columns, COLUMN_MAP(FilterField(key)))

\* the canonical column a filter key is compared with
CanonicalColumn(key) ==
    CASE key = "orderStatus" -> <<"_","s","t","a","t","u","s">>
      [] key = "paymentMethod" -> <<"_","p","a","y","m","e","n","t">>
      [] key = "state" -> <<"_","s","t","a","t","e">>
      [] key = "courier" -> <<"_","c","o","u","r","i","e","r">>
      [] key = "ndrDescription" -> <<"_","n","d","r","_","d","e","s","c","r","i","p","t","i","o","n">>
      [] key \in {"startDate", "endDate"} -> <<"_","o","r","d","e","r","_","d","a","t","e">>
      [] OTHER -> SourceColumn(key)

\* the row's field equals the filter value v, as the key compares them
FieldEquals(row, key, v) ==
    /\ row[CanonicalColumn(key)] # NULL
    /\ row[CanonicalColumn(key)] =
         IF key \in {"orderStatus", "paymentMethod", "state", "courier"}
         THEN Upper(Str(v)) ELSE v

\* the row satisfies the filter key
Satisfies(row, key) ==
    IF key = "startDate"
    THEN /\ as_datetime(single_value(filters, key)) # NULL
         /\ row[<<"_","o","r","d","e","r","_","d","a","t","e">>] # NULL
         /\ DateTimeLE(as_datetime(single_value(filters, key)), row[<<"_","o","r","d","e","r","_","d","a","t","e">>])
    ELSE IF key = "endDate"
    THEN /\ as_datetime(single_value(filters, key)) # NULL
         /\ row[<<"_","o","r","d","e","r","_","d","a","t","e">>] # NULL
         /\ DateTimeLE(row[<<"_","o","r","d","e","r","_","d","a","t","e">>], as_datetime(single_value(filters, key)))
    ELSE IF filters[key].list
    THEN \E i \in DOMAIN filters[key].v : FieldEquals(row, key, filters[key].v[i])
    ELSE FieldEquals(row, key, single_value(filters, key))

\* every key of the FilterSpec has a source column in the frame
AllKeysResolved == \A key \in DOMAIN filters : SourceColumn(key) # NULL

IsAll(key) == ~filters[key].list /\ single_value(filters, key) = <<"A","l","l">>
IsEmptyList(key) == filters[key].list /\ filters[key].v = <<>>
IsEmptyOrNull(key) == ~filters[key].list /\ single_value(filters, key) \in {<<>>, NULL}

Constrains(key) ==
    /\ ~IsAll(key) /\ ~IsEmptyList(key) /\ ~IsEmptyOrNull(key)
    /\ CanonicalColumn(key) # NULL

Count(rows, row) == Cardinality({i \in DOMAIN rows : rows[i] = row})

\* C6: the filtered frame is a sub-collection of the input frame: it has no
\* more rows, and holds every row at most as often as the input does.
C6_FilterIsSubCollection ==
    filtered.done =>
        /\ Len(filtered.df.rows) <= Len(lf.df.rows)
        /\ \A i \in DOMAIN filtered.df.rows :
               Count(filtered.df.rows, filtered.df.rows[i])
                   <= Count(lf.df.rows, filtered.df.rows[i])

\* C6 witness: a payment filter has kept some rows of the frame and dropped
\* others
C6_Witness ==
    /\ filtered.done
    /\ filter_active(filters, "paymentMethod")
    /\ Len(filtered.df.rows) > 0
    /\ Len(filtered.df.rows) < Len(lf.df.rows)

\* C8: a filter on status, payment, state, courier or NDR reason, alone in
\* the FilterSpec, returns every row of a frame that has no source column
\* for that field.
C8_UnresolvedFieldIsNoOp ==
    filtered.done =>
        \A key \in {"orderStatus", "paymentMethod", "state", "courier", "ndrDescription"} :
            (DOMAIN filters = {key} /\ SourceColumn(key) = NULL)
                => filtered.df.rows = lf.df.rows

\* upper-cased and trimmed
UpperTrim(s) == Upper(Strip(s))

\* C9: for each of the six keys, alone in the FilterSpec, the rows kept are
\* those whose upper-cased, trimmed source field equals the upper-cased,
\* trimmed filter value, or one such value of a list.
C9_UpperTrimMatch ==
    filtered.done =>
        \A key \in {"orderStatus", "paymentMethod", "channel", "state", "courier",
                    "ndrDescription"} :
            (DOMAIN filters = {key} /\ filter_active(filters, key)
                 /\ SourceColumn(key) # NULL)
            => filtered.df.rows =
                   SelectSeq(lf.df.rows, LAMBDA r :
                       /\ r[SourceColumn(key)] # NULL
                       /\ \E i \in DOMAIN filters[key].v :
                              UpperTrim(r[SourceColumn(key)])
                                  = UpperTrim(filters[key].v[i]))

\* C10: under {"paymentMethod": "COD"} every row whose payment field holds
\* "Cash on Delivery" is kept and every "Prepaid Online" row is dropped.
C10_CodKeepsCashOnDelivery ==
    ( /\ filtered.done
      /\ DOMAIN filters = {"paymentMethod"}
      /\ ~filters["paymentMethod"].list
      /\ single_value(filters, "paymentMethod") = <<"C","O","D">>
      /\ SourceColumn("paymentMethod") # NULL )
    => \A i \in DOMAIN lf.df.rows :
           LET payment == lf.df.rows[i][SourceColumn("paymentMethod")]
           IN  /\ Contains(Upper(Str(payment)), <<"C","A","S","H"," ","O","N"," ","D","E","L","I","V","E","R","Y">>)
                    => Count(filtered.df.rows, lf.df.rows[i]) > 0
               /\ payment = <<"P","r","e","p","a","i","d"," ","O","n","l","i","n","e">>
                    => Count(filtered.df.rows, lf.df.rows[i]) = 0

\* ---- the orchestrator ----

\* the frame the aggregates of the run are computed on
ComputeFrame == normalized_input(compute_in)

\* the aggregate raises on the frame of the run
Raises(a_type) ==
    CASE a_type = "summary-metrics" -> compute_summary_metrics_pl(ComputeFrame).raised
      [] a_type = "weekly-summary" -> compute_weekly_summary_pd(ComputeFrame).raised
      [] a_type = "top-10-states" ->
            \E o \in compute_top_10_states_pl(ComputeFrame) : o.raised
      [] a_type = "top-10-couriers" ->
            \E o \in compute_top_10_couriers_pl(ComputeFrame) : o.raised

\* the values the aggregate can return on the frame of the run, as they are
\* put in the payload
ReturnValues(a_type) ==
    CASE a_type = "summary-metrics" ->
            {compute_summary_metrics_pl(ComputeFrame).value}
      [] a_type = "weekly-summary" ->
            {clean_result(a_type, compute_weekly_summary_pd(ComputeFrame).value)}
      [] a_type = "top-10-states" ->
            {o.value : o \in compute_top_10_states_pl(ComputeFrame)}
      [] a_type = "top-10-couriers" ->
            {o.value : o \in compute_top_10_couriers_pl(ComputeFrame)}

\* the key of the payload an aggregate is reported under
PayloadKey(a_type) ==
    CASE a_type = "summary-metrics" -> "summary_metrics"
      [] a_type = "weekly-summary" -> "weekly_summary"
      [] OTHER -> a_type

\* C4: compute_all_analytics returns a payload whatever aggregates raise; its
\* errors map has an entry for exactly the aggregates that raised, and every
\* aggregate that did not raise is in the payload with its result.
C4_AggregateErrorsAreIsolated ==
    payload.done =>
        /\ payload.value["success"] = 1
        /\ DOMAIN payload.value["errors"]
               = {a \in Range(ANALYTICS_MAP) : Raises(a)}
        /\ \A a \in Range(ANALYTICS_MAP) :
               ~Raises(a) => payload.value[PayloadKey(a)] \in ReturnValues(a)

\* C4 witness: the first aggregate raised and a later one returned a
\* non-empty result
C4_Witness ==
    /\ payload.done
    /\ "summary-metrics" \in DOMAIN payload.value["errors"]
    /\ "top-10-states" \notin DOMAIN payload.value["errors"]
    /\ Len(payload.value["top-10-states"]) > 0

\* C7: the response to a compute request with the filter state = [S], for a
\* session that has rows of state S, is a report whose top-10-states has
\* exactly one entry, of state S.
C7_ComputeRequestUsesFilteredRows ==
    \A S \in { <<"K","a","r","n","a","t","a","k","a">>, <<"K","e","r","a","l","a">> } :
        ( /\ response.done
          /\ request.sessionId = <<"s","1">>
          /\ request.filters = [k \in {"state"} |-> List(<<S>>)]
          /\ \E i \in DOMAIN compute_in.df.rows :
                 /\ <<"s","t","a","t","e">> \in compute_in.df.columns
                 /\ compute_in.df.rows[i][<<"s","t","a","t","e">>] = S )
        => /\ response.status = 200
           /\ "top-10-states" \in DOMAIN response.body
           /\ Len(response.body["top-10-states"]) = 1
           /\ response.body["top-10-states"][1]["_state"] = Upper(S)

\* ---- the date bounds ----

\* the bound of the FilterSpec under key is set
BoundSet(key) == key \in DOMAIN filters /\ filter_given(filters, key)

\* the day of the bound under key
BoundDay(key) == DayKey(as_datetime(single_value(filters, key)))

\* C11: with startDate and/or endDate set, and no other key, the rows kept
\* are exactly those whose order date is not null and whose day lies between
\* the day of startDate and the day of endDate, both included.
C11_DateBoundsInclusive ==
    ( /\ filtered.done
      /\ DOMAIN filters \subseteq {"startDate", "endDate"}
      /\ BoundSet("startDate") \/ BoundSet("endDate") )
    => filtered.df.rows =
           SelectSeq(lf.df.rows, LAMBDA r :
               /\ r[<<"_","o","r","d","e","r","_","d","a","t","e">>] # NULL
               /\ BoundSet("startDate")
                    => BoundDay("startDate") <= DayKey(r[<<"_","o","r","d","e","r","_","d","a","t","e">>])
               /\ BoundSet("endDate")
                    => DayKey(r[<<"_","o","r","d","e","r","_","d","a","t","e">>]) <= BoundDay("endDate"))


\* ---- running the normalizer twice, and on any table ----

\* C12: normalization is idempotent: preprocess_shipping_data applied to its
\* own output returns the identical table, with the same column set, no
\* duplicated column and the same values.
C12_PreprocessIsIdempotent ==
    pre_again.done =>
        /\ ~pre_again.raised
        /\ pre_again.duplicated = {}
        /\ pre_again.df = pre_out.df

\* the headers whose column no statement of preprocess_shipping_data rewrites
KeptHeaders ==
    { h \in raw_df.columns :
        to_snake_case(h) \notin
            Range(NumberTargets) \cup boolean_fields
            \cup { c \in DOMAIN pre_out.df.rows[1] : to_snake_case(h) = c
                                                    /\ c \in pre_out.duplicated } }

\* C13: for any input table, malformed or missing cells included,
\* preprocess_shipping_data does not raise and returns as many rows as the
\* input has, in the same order.
C13_PreprocessNeverRaisesAndKeepsRows ==
    pre_out.done =>
        /\ ~pre_out.raised
        /\ Len(pre_out.df.rows) = Len(raw_df.rows)
        /\ \A i \in DOMAIN raw_df.rows : \A h \in KeptHeaders :
               OutCell(i, to_snake_case(h)) = standardize_missing_values(raw_df.rows[i][h])


\* ---- the worked example of the normalizer ----

\* row i of the raw table is the row of the example
IsExampleRow(i) ==
    /\ raw_df.columns = { <<"S","t","a","t","u","s">>, <<"O","r","d","e","r"," ","T","o","t","a","l">>, <<"O","r","d","e","r"," ","D","a","t","e">> }
    /\ raw_df.rows[i][<<"S","t","a","t","u","s">>] = <<"d","e","l","i","v","e","r","e","d">>
    /\ raw_df.rows[i][<<"O","r","d","e","r"," ","T","o","t","a","l">>] = <<"1",",","5","0","0",".","0","0">>
    /\ raw_df.rows[i][<<"O","r","d","e","r"," ","D","a","t","e">>] = <<"0","1","/","1","5","/","2","5">>

\* C20: the row {"Status": "delivered", "Order Total": "1,500.00",
\* "Order Date": "01/15/25"} is normalized to delivery_status DELIVERED,
\* order_value 1500.0, order_date 2025-01-15 and order_week 2025-01-15-21.
C20_ExampleRowIsNormalized ==
    (pre_out.done /\ ~pre_out.raised) =>
        \A i \in DOMAIN raw_df.rows :
            IsExampleRow(i) =>
                /\ Get(pre_out.df.rows[i], <<"d","e","l","i","v","e","r","y","_","s","t","a","t","u","s">>) = <<"D","E","L","I","V","E","R","E","D">>
                /\ Get(pre_out.df.rows[i], <<"o","r","d","e","r","_","v","a","l","u","e">>) = <<"1","5","0","0",".","0">>
                /\ Get(pre_out.df.rows[i], <<"o","r","d","e","r","_","d","a","t","e">>) = <<"2","0","2","5","-","0","1","-","1","5">>
                /\ Get(pre_out.df.rows[i], <<"o","r","d","e","r","_","w","e","e","k">>) = <<"2","0","2","5","-","0","1","-","1","5","-","2","1">>


\* ---- the aggregates ----

EmptyDataset ==
    /\ Len(ComputeFrame.rows) = 0
    /\ NormalizedColumns \subseteq ComputeFrame.columns

\* C15: on an empty dataset no aggregate raises, summary-metrics is the
\* zeroed record and weekly-summary, top-10-states and top-10-couriers are
\* the empty list; and whenever the denominator of the rates, total_orders,
\* is 0, the rates are 0.
C15_EmptyDatasetGivesEmptyResults ==
    payload.done =>
        /\ EmptyDataset =>
               /\ DOMAIN payload.value["errors"] = {}
               /\ payload.value["summary_metrics"]
                      = [total_orders |-> 0, total_gmv |-> 0,
                         delivery_rate |-> Float(0, 1), rto_rate |-> Float(0, 1)]
               /\ payload.value["weekly_summary"] = <<>>
               /\ payload.value["top-10-states"] = <<>>
               /\ payload.value["top-10-couriers"] = <<>>
        /\ ( /\ "summary-metrics" \notin DOMAIN payload.value["errors"]
             /\ payload.value["summary_metrics"].total_orders = 0 )
           => /\ payload.value["summary_metrics"].delivery_rate = Float(0, 1)
              /\ payload.value["summary_metrics"].rto_rate = Float(0, 1)

\* C15 witness: compute_all_analytics has run on a frame of no rows
C15_Witness ==
    /\ payload.done
    /\ EmptyDataset
    /\ payload.value["summary_metrics"].total_orders = 0

\* the sum of _order_value over the rows of the frame of the run whose
\* status is DELIVERED
DeliveredValue ==
    sum_value(SelectSeq(ComputeFrame.rows, LAMBDA r : r[<<"_","s","t","a","t","u","s">>] = <<"D","E","L","I","V","E","R","E","D">>),
              <<"_","o","r","d","e","r","_","v","a","l","u","e">>)

\* C16: in summary-metrics total_gmv is the sum of order_value over exactly
\* the rows whose status is DELIVERED, delivery_rate is total_delivered /
\* total_orders * 100, rto_rate is total_rto / total_orders * 100, and
\* total_delivered and total_rto are at most total_orders.
C16_SummaryMetrics ==
    ( /\ payload.done
      /\ "summary-metrics" \notin DOMAIN payload.value["errors"]
      /\ Len(ComputeFrame.rows) > 0 )
    => LET summary == payload.value["summary_metrics"]
       IN  /\ summary.total_orders = Len(ComputeFrame.rows)
           /\ summary.total_gmv = DeliveredValue
           /\ summary.delivery_rate
                  = Float(summary.total_delivered * 100, summary.total_orders)
           /\ summary.rto_rate = Float(summary.total_rto * 100, summary.total_orders)
           /\ summary.total_delivered <= summary.total_orders
           /\ summary.total_rto <= summary.total_orders
           /\ summary.total_delivered
                  = Cardinality({i \in DOMAIN ComputeFrame.rows :
                                     ComputeFrame.rows[i][<<"_","s","t","a","t","u","s">>] = <<"D","E","L","I","V","E","R","E","D">>})

\* C16 witness: a frame with a delivered row and a row that is not delivered
\* and has a value
C16_Witness ==
    /\ payload.done
    /\ "summary-metrics" \notin DOMAIN payload.value["errors"]
    /\ Len(ComputeFrame.rows) = 2
    /\ payload.value["summary_metrics"].total_delivered = 1
    /\ payload.value["summary_metrics"].total_gmv = 1500
    /\ total_gmv_of_all_rows(ComputeFrame.rows) > 1500


\* the delivered rows of the frame of the run that are of the week of a
\* weekly record
DeliveredOfWeek(rec) ==
    SelectSeq(ComputeFrame.rows,
              LAMBDA r : /\ r[<<"_","o","r","d","e","r","_","w","e","e","k">>] = rec["_order_week"]
                         /\ r[<<"_","s","t","a","t","u","s">>] = <<"D","E","L","I","V","E","R","E","D">>)

\* C17: in weekly-summary each week's total_order_value is the sum of
\* order_value over the delivered rows of the week, and a week without
\* delivered rows reports total_order_value = 0 and avg_order_value = 0.
C17_WeeklyValueIsOfDeliveredRows ==
    (payload.done /\ "weekly-summary" \notin DOMAIN payload.value["errors"]) =>
        \A i \in DOMAIN payload.value["weekly_summary"] :
            LET rec == payload.value["weekly_summary"][i]
            IN  /\ "total_order_value" \in DOMAIN rec
                /\ rec["total_order_value"]
                       = sum_value(DeliveredOfWeek(rec), <<"_","o","r","d","e","r","_","v","a","l","u","e">>)
                /\ DeliveredOfWeek(rec) = <<>> =>
                       /\ "avg_order_value" \in DOMAIN rec
                       /\ rec["avg_order_value"] = 0


\* ---- the top-10 listings ----

\* the column and the key of the aggregate that was called
TopColumn == IF top_out.aggregate = "top-10-states" THEN <<"_","s","t","a","t","e">> ELSE <<"_","c","o","u","r","i","e","r">>
TopKey == IF top_out.aggregate = "top-10-states" THEN "_state" ELSE "_courier"

\* the number of rows of the frame in the group k
OrdersOf(k) == Cardinality({i \in DOMAIN top_in.rows : top_in.rows[i][TopColumn] = k})

\* the groups of the frame
GroupsOf == {top_in.rows[i][TopColumn] : i \in DOMAIN top_in.rows}

\* the groups the listing returns
Listed == {top_out.value[i][TopKey] : i \in DOMAIN top_out.value}

\* C18: top-10-states and top-10-couriers return at most 10 groups, each
\* once, in non-increasing order_share, where order_share is the orders of
\* the group / the rows of the frame * 100, and no group that is left out
\* has strictly more orders than a group that is returned.
C18_TopTenByShare ==
    (top_out.done /\ ~top_out.raised) =>
        /\ Len(top_out.value) <= 10
        /\ Cardinality(Listed) = Len(top_out.value)
        /\ Listed \subseteq GroupsOf
        /\ \A i \in DOMAIN top_out.value :
               /\ top_out.value[i].total_orders = OrdersOf(top_out.value[i][TopKey])
               /\ top_out.value[i].order_share
                      = Float(OrdersOf(top_out.value[i][TopKey]) * 100, Len(top_in.rows))
        /\ \A i, j \in DOMAIN top_out.value :
               i < j => ~FloatLess(top_out.value[i].order_share,
                                   top_out.value[j].order_share)
        /\ \A out \in GroupsOf \ Listed : \A kept \in Listed : OrdersOf(out) <= OrdersOf(kept)

\* C18 witness: a frame of more than 10 groups was listed, and a group was
\* left out that has as many orders as the last group of the listing
C18_Witness ==
    /\ top_out.done
    /\ ~top_out.raised
    /\ Cardinality(GroupsOf) > 10
    /\ Len(top_out.value) = 10
    /\ \E out \in GroupsOf \ Listed : OrdersOf(out) = top_out.value[10].total_orders

\* the object the sanitised payload is described as: None for a nan or an
\* infinite float, str keys, every other value as it was
RECURSIVE json_safe(_)
json_safe(obj) ==
    IF obj.t = "float" /\ isna_or_isinf(obj) THEN NoneObject
    ELSE IF obj.t = "dict"
    THEN DictObject([i \in DOMAIN obj.items |->
                    Item(StrObject(obj.items[i].key.v), json_safe(obj.items[i].val))])
    ELSE IF obj.t = "list"
    THEN ListObject([i \in DOMAIN obj.items |->
                    Item(NoneObject, json_safe(obj.items[i].val))])
    ELSE obj

\* C19: the object clean_for_json returns has None in place of every nan and
\* infinite float, a str for every dict key, and every other value, the
\* bools included, with the value and the type it had.
C19_CleanForJsonKeepsOtherValues ==
    json_out.done => json_out.value = json_safe(json_in)

\* the raw status of the row is given: not empty and not a null marker
StatusGiven(row) ==
    /\ Truthy(status_field(row))
    /\ status_str_of(row) \notin {<<>>, <<"N","/","A">>, <<"N","O","N","E">>, <<"N","U","L","L">>, <<"N","A","N">>}

\* the status the date signals give in their priority order, else the raw
\* status upper-cased
DateSignalStatus(row) ==
    IF date_present(delivered_date_of(row)) THEN <<"D","E","L","I","V","E","R","E","D">>
    ELSE IF date_present(ndr_date_of(row)) THEN <<"N","D","R">>
    ELSE IF date_present(rto_date_of(row))
         THEN IF date_present(rto_delivered_date_of(row))
              THEN <<"R","T","O"," ","D","E","L","I","V","E","R","E","D">>
              ELSE <<"R","T","O"," ","I","N","I","T","I","A","T","E","D">>
    ELSE IF date_present(ofd_date_of(row)) THEN <<"O","F","D">>
    ELSE status_str_of(row)

\* C21: a row whose raw status is given and is no explicit status token gets
\* the status of its date signals in the order delivery date, NDR date, RTO
\* date (RTO DELIVERED with an RTO-delivered date, else RTO INITIATED),
\* out-for-delivery date, and its raw status upper-cased when it has none.
C21_DateSignalsInPriorityOrder ==
    ( /\ gds_out # NULL
      /\ StatusGiven(gds_row)
      /\ ~IsExplicitToken(status_str_of(gds_row)) )
    => gds_out = DateSignalStatus(gds_row)

\* the str s starts with RTO
StartsWithRto(s) == Len(s) >= 3 /\ SubSeq(s, 1, 3) = <<"R","T","O">>

\* the explicit boolean column c of output row i is true
ExplicitFlag(i, c) ==
    c \in pre_out.df.columns /\ OutCell(i, c) = PyTrue

\* C22: in every output row ndr_flag is true iff delivery_status is NDR or
\* the boolean ndr column is true, and rto_flag is true iff delivery_status
\* starts with RTO or the boolean rto column is true.
C22_FlagsFollowDeliveryStatus ==
    (pre_out.done /\ ~pre_out.raised) =>
        \A i \in DOMAIN pre_out.df.rows :
            /\ (OutCell(i, <<"n","d","r","_","f","l","a","g">>) = PyTrue)
                   <=> ( \/ OutCell(i, <<"d","e","l","i","v","e","r","y","_","s","t","a","t","u","s">>) = <<"N","D","R">>
                         \/ ExplicitFlag(i, <<"n","d","r">>) )
            /\ (OutCell(i, <<"r","t","o","_","f","l","a","g">>) = PyTrue)
                   <=> ( \/ StartsWithRto(OutCell(i, <<"d","e","l","i","v","e","r","y","_","s","t","a","t","u","s">>))
                         \/ ExplicitFlag(i, <<"r","t","o">>) )

\* the five buckets of a month, as first and last day
Buckets(year, month) ==
    { <<1, 7>>, <<8, 14>>, <<15, 21>>, <<22, 28>>, <<29, DaysInMonth(year, month)>> }

\* the label YYYY-MM-SS-EE of a bucket
BucketLabel(year, month, bucket) ==
    ZFill(IntToStr(year), 4) \o <<"-">> \o ZFill(IntToStr(month), 2) \o <<"-">>
        \o ZFill(IntToStr(bucket[1]), 2) \o <<"-">> \o ZFill(IntToStr(bucket[2]), 2)

\* C23: get_order_week gives None for None, and for a date the label of
\* the one bucket of its month, of [1-7], [8-14], [15-21], [22-28] and
\* [29-last day], that its day lies in, as YYYY-MM-SS-EE with the month and
\* the two days zero-padded.
C23_OrderWeekIsTheBucketOfTheDay ==
    week_out.done =>
        IF week_in = NULL THEN week_out.value = NULL
        ELSE LET year == YearOf(week_in)
                 month == MonthOf(week_in)
                 fit == { b \in Buckets(year, month) :
                            DayOf(week_in) \in b[1]..b[2] }
             IN  /\ Cardinality(fit) = 1
                 /\ \A b \in fit : week_out.value = BucketLabel(year, month, b)

\* C23 witness: the week of a 29th of February has been computed
C23_Witness ==
    /\ week_out.done
    /\ week_in # NULL
    /\ MonthOf(week_in) = 2
    /\ DayOf(week_in) = 29
    /\ week_out.value = <<"2","0","2","4","-","0","2","-","2","9","-","2","9">>

\* the sum of total_orders over the records of a weekly summary
RECURSIVE TotalOrders(_)
TotalOrders(records) ==
    IF records = <<>> THEN 0
    ELSE Head(records)["total_orders"] + TotalOrders(Tail(records))

\* the rows of the frame without an order week
RowsWithoutWeek ==
    {i \in DOMAIN ComputeFrame.rows : ComputeFrame.rows[i][<<"_","o","r","d","e","r","_","w","e","e","k">>] = NULL}

\* C24: in weekly-summary the total_orders of the groups sum to the number
\* of rows, and the rows without an order date are all counted in one
\* group, whose week label is the string "Unknown".
C24_NullWeekIsTheUnknownGroup ==
    (payload.done /\ "weekly-summary" \notin DOMAIN payload.value["errors"]) =>
        LET records == payload.value["weekly_summary"]
            unknown == {i \in DOMAIN records : records[i]["_order_week"] = <<"U","n","k","n","o","w","n">>}
        IN  /\ TotalOrders(records) = Len(ComputeFrame.rows)
            /\ RowsWithoutWeek # {} =>
                   /\ Cardinality(unknown) = 1
                   /\ \A i \in unknown :
                          records[i]["total_orders"] = Cardinality(RowsWithoutWeek)

\* the two dates the computed field is the turnaround time of
TatStart ==
    IF tat_out.field \in DOMAIN PreprocessTats
    THEN tat_row[PreprocessTats[tat_out.field][1]]
    ELSE tat_row[PolarsTats[tat_out.field][1]]

TatEnd ==
    IF tat_out.field \in DOMAIN PreprocessTats
    THEN tat_row[PreprocessTats[tat_out.field][2]]
    ELSE tat_row[PolarsTats[tat_out.field][2]]

\* the end date is before the start date
EndsBeforeStart(start_date, end_date) ==
    \/ DayKey(end_date) < DayKey(start_date)
    \/ DayKey(end_date) = DayKey(start_date)
          /\ SecondKey(end_date) < SecondKey(start_date)

\* C25: a turnaround-time field is None or not negative; it is None when
\* its start or its end date is None and when the end is before the start.
C25_TatIsNullOrNonNegative ==
    tat_out.done =>
        /\ tat_out.null \/ tat_out.num >= 0
        /\ (TatStart = NULL \/ TatEnd = NULL) => tat_out.null
        /\ (TatStart # NULL /\ TatEnd # NULL /\ EndsBeforeStart(TatStart, TatEnd))
               => tat_out.null

\* the aliases of the call that are columns of its frame
PresentAliases ==
    {i \in DOMAIN resolve_in.keys :
        \E j \in DOMAIN resolve_in.df_columns :
            resolve_in.df_columns[j] = resolve_in.keys[i]}

\* C26: resolve_column returns None when no alias is a column, and else the
\* alias that is a column and has no alias before it in the list that is
\* one; a frame with the same columns in another order gives the same.
C26_ResolveColumnIsFirstPresentAlias ==
    resolve_out.done =>
        /\ PresentAliases = {} => resolve_out.value = NULL
        /\ \A i \in PresentAliases :
               (\A j \in PresentAliases : i <= j)
                   => resolve_out.value = resolve_in.keys[i]
        /\ \A other \in ColumnLists :
               Range(other) = Range(resolve_in.df_columns)
                   => resolve_column(Range(other), resolve_in.keys) = resolve_out.value

\* C26 witness: two aliases are columns, the one of lower priority first in
\* the frame, and the call returned the one of higher priority
C26_Witness ==
    /\ resolve_out.done
    /\ resolve_in.df_columns = << <<"d","e","l","i","v","e","r","y","_","s","t","a","t","u","s">>, <<"s","k","u">>, <<"s","t","a","t","u","s">> >>
    /\ resolve_out.value = <<"s","t","a","t","u","s">>

\* column c of the frame has a value in no row
EntirelyEmpty(c) == \A i \in DOMAIN pl_df.rows : pl_df.rows[i][c] = NULL

\* the positions, in the alias list of the payment field, of the columns of
\* the frame, and of those that have a value in some row
PaymentPresent ==
    {k \in DOMAIN COLUMN_MAP("payment") : COLUMN_MAP("payment")[k] \in pl_df.columns}

PaymentFilled ==
    {k \in PaymentPresent : ~EntirelyEmpty(COLUMN_MAP("payment")[k])}

\* C27: when the present candidate column of highest priority of the
\* payment field is entirely empty, the payment of every row is read from
\* the first candidate column, in priority order, that has a value in some
\* row.
C27_EmptyCandidateFallsBack ==
    ( /\ lf.done
      /\ PaymentPresent # {}
      /\ PaymentFilled # {}
      /\ Min(PaymentPresent) \notin PaymentFilled )
    => \A i \in DOMAIN lf.df.rows :
           lf.df.rows[i][<<"_","p","a","y","m","e","n","t">>]
               = strip_upper(pl_df.rows[i][COLUMN_MAP("payment")[Min(PaymentFilled)]])

\* how often the job of a session is on the list of the queue, and how many
\* workers run it
TimesQueued(session) == Cardinality({i \in DOMAIN rq_queue : rq_queue[i] = session})
TimesRunning(session) == Cardinality({w \in DOMAIN rq_work : rq_work[w] = session})

\* C28: whatever the interleaving of the enqueue calls and the workers, the
\* analytics job of a session is at no time queued or run more than once:
\* an enqueue made while it is queued or started adds no job.
C28_OneJobPerSession ==
    \A session \in Sessions : TimesQueued(session) + TimesRunning(session) <= 1

\* the admins of the users collection
Admins == {i \in DOMAIN users : users[i].role = "admin"}

\* no call of create_admin_user is under way and one has returned
AdminCallsOver ==
    /\ admin_done # {}
    /\ \A c \in DOMAIN admin_call : admin_call[c].at = "outside"

\* C29: when calls of create_admin_user, interleaved or not, have returned
\* and none is under way, the users collection has exactly one admin, with
\* the email, the name and the hashed password of one of the calls.
C29_ExactlyOneAdmin ==
    AdminCallsOver =>
        /\ Cardinality(Admins) = 1
        /\ \A i \in Admins :
               \E args \in admin_done :
                   /\ users[i].email = args.email
                   /\ users[i].name = args.name
                   /\ users[i].password = hash_password(args.password)

\* a call of store_dataframe_as_parquet whose Parquet write failed is over
WriteFailedCallOver ==
    /\ store_call.at = "outside"
    /\ store_call.e # ""

\* C30: when the Parquet write of a call of store_dataframe_as_parquet has
\* failed and the call is over, the call has returned without raising, the
\* session hash has status write_failed and the error message, the session
\* has no file left on disk, and the call has stored no parquet_path
StoreWriteFailureIsRecorded ==
    LET entry == store_redis[store_call.session_id]
    IN  /\ store_call.raised = ""
        /\ "status" \in DOMAIN entry.hash
        /\ entry.hash["status"] = "write_failed"
        /\ "error_message" \in DOMAIN entry.hash
        /\ entry.hash["error_message"] = store_call.e
        /\ store_disk[store_call.session_id] = "absent"
        /\ "parquet_path" \in DOMAIN entry.hash =>
               "parquet_path" \in DOMAIN store_call.before.hash

C30_WriteFailureIsRecorded == WriteFailedCallOver => StoreWriteFailureIsRecorded

====
